---- MODULE Spec2Model ----
(***************************************************************************)
(* Model of the browser-automation recorder and generator:                 *)
(*   - BrowserRecorder (frontend/src/utils/recorder.js): the capture       *)
(*     session, its buffer, its listeners and the selector resolver;       *)
(*   - ScriptGenerator (backend/services/scriptGenerator.js): the four     *)
(*     per-target generators and generateAutomationPackage;                *)
(*   - AIService.generateEnhancedScript (backend/services/aiService.js);   *)
(*   - APIExportService.extractAPIParameters and its helpers               *)
(*     (backend/services/apiExportService.js).                             *)
(*                                                                         *)
(* Strings the code parses or assembles are sequences of tokens: a         *)
(* selector is the sequence of its pieces, a class name the sequence of    *)
(* its characters, a URL a record of its parse.  Attribute values are      *)
(* single tokens that contain no quote and no "name=" / "id=" piece.       *)
(***************************************************************************)
EXTENDS Integers, Sequences, FiniteSets, TLC

VARIABLES
  \* ---- BrowserRecorder and its page ----
  isRecording,   \* this.isRecording
  interactions,  \* the array this.interactions refers to
  startTime,     \* this.startTime (None for null, or Some clock value)
  listeners,     \* this.listeners
  currentUrl,    \* this.currentUrl
  attached,      \* listeners registered on document / window
  location,      \* window.location.href
  now,           \* Date.now()
  returned,      \* Some array the last stopRecording call returned, or None
  aliased,       \* TRUE while `returned` and this.interactions are one array
  twin,          \* this.interactions of a second session that receives the
                 \* same events, password inputs holding other values
  delivered,     \* number of DOM events the recorder has recorded so far
  started,       \* Some outcome of the last startRecording call, None before
  \* ---- synthesis and parameter extraction ----
  trace,         \* the trace handed to the backend
  out,           \* out[call][target]: the text a synthesis call produced
  params,        \* Some result of extractAPIParameters, None before the call
  estimate,      \* Some result of estimateRuntime, None before the call
  security,      \* Some result of analyzeSecurity, None before the call
  \* ---- generateAutomationPackage / generateEnhancedScript ----
  pc,            \* position of the generateAutomationPackage call
  attempt,       \* loop variable of generateEnhancedScript
  currentModelIndex, \* this.currentModelIndex
  failures,      \* models whose callAI failed in this call, in order
  requestCache,  \* this.requestCache: the entries in insertion order
  basicScript,   \* locals of generateAutomationPackage (None until set)
  analysis,
  enhancedScript,
  altScripts,
  result,        \* Some package or error generateAutomationPackage ended with
  \* ---- generateSelector on its own ----
  page,          \* the tree the element belongs to
  node,          \* the element handed to generateSelector
  resolved,      \* Some selector generateSelector returned, None before the call
  \* ---- the backend serving several recordings ----
  calls,         \* calls[c]: the c-th generateEnhancedScript call in progress
  inserted,      \* number of responses cached so far (cacheResponse calls)
  table,         \* the recordings table: table[id] is the row of recording id
  jobs,          \* jobs[id]: the processRecording call made for recording id
  poll,          \* the pollRecordingStatus call of the frontend
  settingsFile,  \* the settings stored in data/settings.json
  settings       \* the settings state of the Settings component

recVars == <<isRecording, interactions, startTime, listeners, currentUrl,
             attached, location, now, returned, aliased, twin, delivered,
             started>>
genVars == <<trace, out, params, estimate, security>>
pkgVars == <<pc, attempt, currentModelIndex, failures, requestCache,
             basicScript, analysis, enhancedScript, altScripts, result>>
selVars == <<page, node, resolved>>
svcVars == <<calls, inserted, table, jobs, poll, settingsFile, settings>>
vars == <<recVars, genVars, pkgVars, selVars, svcVars>>

\* A value that may be absent (null, or no call made yet): <<>> or <<value>>.
None == <<>>
Some(x) == <<x>>

\* ---- bounds ----
MaxEvents == 2   \* DOM events delivered to the recorder in one run
MaxClock == 2    \* last clock value

Range(s) == {s[i] : i \in 1..Len(s)}

(***************************************************************************)
(* The page: a small DOM tree.  0 stands for `document`.                   *)
(***************************************************************************)
NoElement == 0
Document == 0

\* One element per resolver rule that the recorded page uses: a root, a form
\* whose classes are all rejected, a password input with a name, a text input
\* with no attribute at all, and a button with a short text.
DOM ==
  <<[tagName |-> "HTML", id |-> "", testid |-> "", name |-> "",
     className |-> <<>>, ariaLabel |-> "", placeholder |-> "",
     textContent |-> "", type |-> "", parentElement |-> NoElement,
     children |-> <<2>>],
    [tagName |-> "FORM", id |-> "", testid |-> "", name |-> "",
     className |-> << <<"_", "f">>, <<"a", "b">> >>, ariaLabel |-> "",
     placeholder |-> "", textContent |-> "Go", type |-> "",
     parentElement |-> 1, children |-> <<3, 4, 5>>],
    [tagName |-> "INPUT", id |-> "", testid |-> "", name |-> "pass",
     className |-> <<>>, ariaLabel |-> "", placeholder |-> "",
     textContent |-> "", type |-> "password", parentElement |-> 2,
     children |-> <<>>],
    [tagName |-> "INPUT", id |-> "", testid |-> "", name |-> "",
     className |-> <<>>, ariaLabel |-> "", placeholder |-> "",
     textContent |-> "", type |-> "text", parentElement |-> 2,
     children |-> <<>>],
    [tagName |-> "BUTTON", id |-> "", testid |-> "", name |-> "",
     className |-> <<>>, ariaLabel |-> "", placeholder |-> "",
     textContent |-> "Go", type |-> "submit", parentElement |-> 2,
     children |-> <<>>]>>

Elements == 1..Len(DOM)

\* String.prototype.toLowerCase on the tag names of the page.
toLowerCase(tag) ==
  CASE tag = "HTML" -> "html"
    [] tag = "FORM" -> "form"
    [] tag = "INPUT" -> "input"
    [] tag = "BUTTON" -> "button"
    [] tag = "A" -> "a"
    [] tag = "DIV" -> "div"
    [] OTHER -> tag

\* Array.prototype.indexOf, 0-based, -1 when absent.
indexOf(seq, x) ==
  IF \E i \in 1..Len(seq) : seq[i] = x
  THEN (CHOOSE i \in 1..Len(seq) : seq[i] = x /\ \A j \in 1..(i - 1) : seq[j] # x) - 1
  ELSE -1

\* The filter of generateSelector: cls && !cls.startsWith('_') && cls.length > 2
\* (a class is the sequence of its characters).
MeaningfulClass(cls) == Len(cls) > 0 /\ cls[1] # "_" /\ Len(cls) > 2

MeaningfulClasses(el) == SelectSeq(el.className, MeaningfulClass)

MaxTextLen == 50

\* String.prototype.trim on the text contents of the pages modelled.
trim(text) ==
  CASE text = " " -> ""
    [] text = " Go " -> "Go"
    [] OTHER -> text

\* generateSelector, parameterised by the tree so that it can be applied to
\* other pages than DOM.
RECURSIVE generateSelectorIn(_, _)
generateSelectorInMutNameFirst(tree, e) ==
  IF e = Document THEN <<"document">>
  ELSE LET element == tree[e] IN
    IF element.id # "" THEN <<"#", element.id>>
    ELSE IF element.name # "" THEN <<"[", "name=", "\"", element.name, "\"", "]">>
    ELSE IF element.testid # "" THEN <<"[", "data-test", "id=", "\"", element.testid, "\"", "]">>
    ELSE IF Len(MeaningfulClasses(element)) > 0
      THEN <<".">> \o MeaningfulClasses(element)[1]
    ELSE IF element.ariaLabel # "" THEN <<"[", "aria-label=", "\"", element.ariaLabel, "\"", "]">>
    ELSE IF element.placeholder # "" THEN <<"[", "placeholder=", "\"", element.placeholder, "\"", "]">>
    ELSE IF /\ element.tagName \in {"BUTTON", "A"}
            /\ element.textContent # ""
            /\ Len(trim(element.textContent)) < MaxTextLen
      THEN <<toLowerCase(element.tagName), ":contains(", "\"",
             trim(element.textContent), "\"", ")">>
    ELSE IF element.parentElement # NoElement
      THEN generateSelectorIn(tree, element.parentElement)
             \o <<" > ", toLowerCase(element.tagName), ":nth-child(",
                  ToString(indexOf(tree[element.parentElement].children, e) + 1), ")">>
    ELSE <<toLowerCase(element.tagName)>>

generateSelectorInMutZeroBased(tree, e) ==
  IF e = Document THEN <<"document">>
  ELSE LET element == tree[e] IN
    IF element.id # "" THEN <<"#", element.id>>
    ELSE IF element.testid # "" THEN <<"[", "data-test", "id=", "\"", element.testid, "\"", "]">>
    ELSE IF element.name # "" THEN <<"[", "name=", "\"", element.name, "\"", "]">>
    ELSE IF Len(MeaningfulClasses(element)) > 0
      THEN <<".">> \o MeaningfulClasses(element)[1]
    ELSE IF element.ariaLabel # "" THEN <<"[", "aria-label=", "\"", element.ariaLabel, "\"", "]">>
    ELSE IF element.placeholder # "" THEN <<"[", "placeholder=", "\"", element.placeholder, "\"", "]">>
    ELSE IF /\ element.tagName \in {"BUTTON", "A"}
            /\ element.textContent # ""
            /\ Len(trim(element.textContent)) < MaxTextLen
      THEN <<toLowerCase(element.tagName), ":contains(", "\"",
             trim(element.textContent), "\"", ")">>
    ELSE IF element.parentElement # NoElement
      THEN generateSelectorIn(tree, element.parentElement)
             \o <<" > ", toLowerCase(element.tagName), ":nth-child(",
                  ToString(indexOf(tree[element.parentElement].children, e)), ")">>
    ELSE <<toLowerCase(element.tagName)>>

generateSelectorIn(tree, e) ==
  IF e = Document THEN <<"document">>
  ELSE LET element == tree[e] IN
    IF element.id # "" THEN <<"#", element.id>>
    ELSE IF element.testid # "" THEN <<"[", "data-test", "id=", "\"", element.testid, "\"", "]">>
    ELSE IF element.name # "" THEN <<"[", "name=", "\"", element.name, "\"", "]">>
    ELSE IF Len(MeaningfulClasses(element)) > 0
      THEN <<".">> \o MeaningfulClasses(element)[1]
    ELSE IF element.ariaLabel # "" THEN <<"[", "aria-label=", "\"", element.ariaLabel, "\"", "]">>
    ELSE IF element.placeholder # "" THEN <<"[", "placeholder=", "\"", element.placeholder, "\"", "]">>
    ELSE IF /\ element.tagName \in {"BUTTON", "A"}
            /\ element.textContent # ""
            /\ Len(trim(element.textContent)) < MaxTextLen
      THEN <<toLowerCase(element.tagName), ":contains(", "\"",
             trim(element.textContent), "\"", ")">>
    ELSE IF element.parentElement # NoElement
      THEN generateSelectorIn(tree, element.parentElement)
             \o <<" > ", toLowerCase(element.tagName), ":nth-child(",
                  ToString(indexOf(tree[element.parentElement].children, e) + 1), ")">>
    ELSE <<toLowerCase(element.tagName)>>

generateSelector(e) == generateSelectorIn(DOM, e)

(***************************************************************************)
(* BrowserRecorder                                                         *)
(***************************************************************************)
Urls == {<<"https:", "//a.test/">>, <<"https:", "//a.test/", "p">>}
PasswordValues == {<<"hunter2">>, <<"s3cret">>}
TextValues == {<<"hello">>}
ClickTargets == {5}
InputTargets == {3, 4}
SubmitTargets == {2}
KeyTargets == {Document}
Keys == {"Enter", "a"}
ScrollPositions == {<<0, 100>>}
RecordedKeys == {"Enter", "Tab", "Escape"}

\* The sentinel recorded in place of a password.
PASSWORD == <<"[PASSWORD]">>

\* ToNumber(this.startTime): null converts to 0 in `Date.now() - this.startTime`.
ToNumber(v) == IF v = None THEN 0 ELSE v[1]

\* addInteraction applied to a buffer: the spread, then timestamp (read at t1)
\* and relativeTime (read at t2) overriding what the interaction carried.
AddInteractionMutStartRelative(buf, recording, start, interaction, t1, t2) ==
  IF ~recording THEN buf
  ELSE Append(buf, [timestamp |-> t1, relativeTime |-> ToNumber(start) - t2] @@ interaction)

addInteraction(buf, recording, start, interaction, t1, t2) ==
  IF ~recording THEN buf
  ELSE Append(buf, [timestamp |-> t1, relativeTime |-> t2 - ToNumber(start)] @@ interaction)

\* A string as the text of an interaction: its tokens, none when empty.
Text(string) == IF string = "" THEN <<>> ELSE <<string>>

\* The six closures of attachEventListeners, as the interaction each builds.
clickInteraction(e) ==
  [action |-> "click", selector |-> generateSelector(e),
   element |-> toLowerCase(DOM[e].tagName),
   coordinates |-> <<0, 0>>, text |-> Text(trim(DOM[e].textContent))]

inputInteractionMutNoRedaction(e, value) ==
  [action |-> "type", selector |-> generateSelector(e),
   element |-> toLowerCase(DOM[e].tagName),
   text |-> value, inputType |-> DOM[e].type]

inputInteraction(e, value) ==
  IF DOM[e].type = "password"
  THEN [action |-> "type", selector |-> generateSelector(e),
        element |-> toLowerCase(DOM[e].tagName),
        text |-> PASSWORD, inputType |-> DOM[e].type]
  ELSE [action |-> "type", selector |-> generateSelector(e),
        element |-> toLowerCase(DOM[e].tagName),
        text |-> value, inputType |-> DOM[e].type]

submitInteraction(e) ==
  [action |-> "submit", selector |-> generateSelector(e),
   element |-> toLowerCase(DOM[e].tagName)]

scrollInteraction(pos) == [action |-> "scroll", x |-> pos[1], y |-> pos[2]]

navigationInteraction(url) == [action |-> "navigation", url |-> url]

keyInteraction(e, key) ==
  [action |-> "keypress", key |-> key, selector |-> generateSelector(e)]

\* ---- listeners ----
\* A registration is identified by target, event type, callback and capture
\* flag; `options` is what the recorder stored for the later removal.
Capture(options) == options = "true"

ListenerSpecs ==
  <<[element |-> "document", event |-> "click", options |-> "true"],
    [element |-> "document", event |-> "input", options |-> "true"],
    [element |-> "document", event |-> "submit", options |-> "true"],
    [element |-> "window", event |-> "scroll", options |-> "passive"],
    [element |-> "window", event |-> "popstate", options |-> "undefined"],
    [element |-> "document", event |-> "keydown", options |-> "true"]>>

Registration(l) ==
  [element |-> l.element, event |-> l.event, handler |-> l.handler,
   capture |-> Capture(l.options)]

\* The closures of one attachEventListeners call are new objects: they get
\* the least identity that no live registration or stored listener uses.
FreshHandler ==
  LET used == {r.handler : r \in attached} \cup {l.handler : l \in Range(listeners)}
  IN CHOOSE h \in 1..(Cardinality(used) + 1) : h \notin used

NewListenersMutNoKeydown(h) ==
  [i \in 1..(Len(ListenerSpecs) - 1) |->
     [element |-> ListenerSpecs[i].element, event |-> ListenerSpecs[i].event,
      handler |-> h, options |-> ListenerSpecs[i].options]]

NewListeners(h) ==
  [i \in 1..Len(ListenerSpecs) |->
     [element |-> ListenerSpecs[i].element, event |-> ListenerSpecs[i].event,
      handler |-> h, options |-> ListenerSpecs[i].options]]

\* removeEventListeners: each stored listener is removed with its stored
\* options; a registration goes only when target, type, callback and capture
\* flag all match.
RemovedMutNoOptions(regs, stored) ==
  regs \ {[element |-> l.element, event |-> l.event, handler |-> l.handler,
           capture |-> FALSE] : l \in Range(stored)}

Removed(regs, stored) == regs \ {Registration(l) : l \in Range(stored)}

\* Number of registered callbacks an event of this type reaches.
Listening(event) == Cardinality({r \in attached : r.event = event})

\* What n registered callbacks of one event type make of the buffer.
RECURSIVE Deliver(_, _, _, _, _)
Deliver(buf, n, interaction, t1, t2) ==
  IF n = 0 THEN buf
  ELSE Deliver(addInteraction(buf, isRecording, startTime, interaction, t1, t2),
               n - 1, interaction, t1, t2)

\* Date.now(): a handler runs to completion within one clock value, so every
\* read it makes returns `now`; the clock advances between handlers (Tick).
DateNow == now

\* State the synthesis and packaging side keeps while the recorder runs.
SelIdle == page = <<>> /\ node = NoElement /\ resolved = None
\* DEFAULT_SETTINGS, as far as the fields modelled go; it is also the initial
\* state of the Settings component.
DEFAULT_SETTINGS == [aiModel |-> "gpt-4.1-mini", apiKey |-> "", timeout |-> 30]

\* pollRecordingStatus not called yet.
NoPoll ==
  [pc |-> "idle", maxAttempts |-> 0, attempts |-> 0, responses |-> <<>>,
   updates |-> <<>>]

SvcIdle ==
  /\ calls = <<>> /\ inserted = 0 /\ table = <<>> /\ jobs = <<>>
  /\ poll = NoPoll
  /\ settingsFile = DEFAULT_SETTINGS /\ settings = DEFAULT_SETTINGS
GenIdle ==
  /\ trace = <<>> /\ out = <<>> /\ params = None
  /\ estimate = None /\ security = None
PkgIdle ==
  /\ pc = "idle" /\ attempt = 0 /\ currentModelIndex = 0
  /\ failures = <<>> /\ requestCache = <<>> /\ basicScript = None
  /\ analysis = None /\ enhancedScript = None /\ altScripts = None
  /\ result = None

InitRec ==
  /\ isRecording = FALSE
  /\ interactions = <<>>
  /\ startTime = None
  /\ listeners = <<>>
  /\ location \in Urls
  /\ currentUrl = location
  /\ attached = {}
  /\ now = 1
  /\ returned = None
  /\ aliased = FALSE
  /\ twin = <<>>
  /\ delivered = 0
  /\ started = None
  /\ SelIdle
  /\ SvcIdle
  /\ GenIdle
  /\ PkgIdle

\* An event appended to this.interactions is appended to `returned` too when
\* both are the same array.
Pushed(buf) ==
  /\ interactions' = buf
  /\ returned' = IF aliased THEN Some(buf) ELSE returned

\* What a startRecording call hands back to its caller, `recording` being
\* this.isRecording at the call: the bare `return;` of the guard, or the end
\* of the body.  Neither path throws.
startRecordingOutcome(recording) ==
  IF recording THEN [value |-> "undefined", threw |-> FALSE]
  ELSE [value |-> "undefined", threw |-> FALSE]

StartRecordingMutKeepsBuffer ==
  /\ started' = Some(startRecordingOutcome(isRecording))
  /\ IF isRecording
     THEN UNCHANGED <<isRecording, interactions, startTime, listeners, currentUrl,
                      attached, location, now, returned, aliased, twin, delivered>>
     ELSE
       LET h == FreshHandler IN
       /\ isRecording' = TRUE
       /\ startTime' = Some(DateNow)
       /\ currentUrl' = location
       /\ Pushed(addInteraction(interactions, TRUE, Some(DateNow),
                    [timestamp |-> DateNow] @@ navigationInteraction(location),
                    DateNow, DateNow))
       /\ twin' = addInteraction(twin, TRUE, Some(DateNow),
                    [timestamp |-> DateNow] @@ navigationInteraction(location),
                    DateNow, DateNow)
       /\ attached' = attached \cup {Registration(l) : l \in Range(NewListeners(h))}
       /\ listeners' = NewListeners(h)
       /\ UNCHANGED <<location, now, aliased, delivered>>
  /\ UNCHANGED <<genVars, pkgVars, selVars, svcVars>>

StartRecordingMutNoGuard ==
  LET h == FreshHandler IN
  /\ started' = Some(startRecordingOutcome(isRecording))
  /\ isRecording' = TRUE
  /\ startTime' = Some(DateNow)
  /\ currentUrl' = location
  /\ interactions' = addInteraction(<<>>, TRUE, Some(DateNow),
                       [timestamp |-> DateNow] @@ navigationInteraction(location),
                       DateNow, DateNow)
  /\ twin' = addInteraction(<<>>, TRUE, Some(DateNow),
               [timestamp |-> DateNow] @@ navigationInteraction(location),
               DateNow, DateNow)
  /\ attached' = attached \cup {Registration(l) : l \in Range(NewListeners(h))}
  /\ listeners' = NewListeners(h)
  /\ aliased' = FALSE
  /\ UNCHANGED <<location, now, returned, delivered>>
  /\ UNCHANGED <<genVars, pkgVars, selVars, svcVars>>

StartRecording ==
  /\ started' = Some(startRecordingOutcome(isRecording))
  /\ IF isRecording
     THEN UNCHANGED <<isRecording, interactions, startTime, listeners, currentUrl,
                      attached, location, now, returned, aliased, twin, delivered>>
     ELSE
       LET h == FreshHandler IN
       /\ isRecording' = TRUE
       /\ startTime' = Some(DateNow)
       /\ currentUrl' = location
       /\ interactions' = addInteraction(<<>>, TRUE, Some(DateNow),
                            [timestamp |-> DateNow] @@ navigationInteraction(location),
                            DateNow, DateNow)
       /\ twin' = addInteraction(<<>>, TRUE, Some(DateNow),
                    [timestamp |-> DateNow] @@ navigationInteraction(location),
                    DateNow, DateNow)
       /\ attached' = attached \cup {Registration(l) : l \in Range(NewListeners(h))}
       /\ listeners' = NewListeners(h)
       /\ aliased' = FALSE
       /\ UNCHANGED <<location, now, returned, delivered>>
  /\ UNCHANGED <<genVars, pkgVars, selVars, svcVars>>

StopRecordingMutIdleClears ==
  /\ IF ~isRecording
     THEN /\ returned' = Some(<<>>)
          /\ aliased' = FALSE
          /\ interactions' = <<>>
          /\ twin' = <<>>
          /\ startTime' = None
          /\ UNCHANGED <<isRecording, listeners, currentUrl, attached, location,
                         now, delivered, started>>
     ELSE /\ isRecording' = FALSE
          /\ attached' = Removed(attached, listeners)
          /\ listeners' = <<>>
          /\ returned' = Some(interactions)
          /\ aliased' = TRUE
          /\ UNCHANGED <<interactions, startTime, currentUrl, location, now,
                         twin, delivered, started>>
  /\ UNCHANGED <<genVars, pkgVars, selVars, svcVars>>

StopRecording ==
  /\ IF ~isRecording
     THEN /\ returned' = Some(<<>>)
          /\ aliased' = FALSE
          /\ UNCHANGED <<isRecording, interactions, startTime, listeners,
                         currentUrl, attached, location, now, twin, delivered,
                         started>>
     ELSE /\ isRecording' = FALSE
          /\ attached' = Removed(attached, listeners)
          /\ listeners' = <<>>
          /\ returned' = Some(interactions)
          /\ aliased' = TRUE
          /\ UNCHANGED <<interactions, startTime, currentUrl, location, now,
                         twin, delivered, started>>
  /\ UNCHANGED <<genVars, pkgVars, selVars, svcVars>>

Clear ==
  /\ interactions' = <<>>
  /\ twin' = <<>>
  /\ startTime' = None
  /\ aliased' = FALSE
  /\ UNCHANGED <<isRecording, listeners, currentUrl, attached, location, now,
                 returned, delivered, started>>
  /\ UNCHANGED <<genVars, pkgVars, selVars, svcVars>>

\* A DOM event of one type reaches the callbacks registered for it; both
\* sessions see the same event at the same clock values.
Emit(event, interaction, twinInteraction) ==
  /\ Listening(event) > 0
  /\ delivered < MaxEvents
  /\ delivered' = delivered + 1
  /\ Pushed(Deliver(interactions, Listening(event), interaction, DateNow, DateNow))
  /\ twin' = Deliver(twin, Listening(event), twinInteraction, DateNow, DateNow)
  /\ UNCHANGED <<isRecording, startTime, listeners, attached, location, now,
                 aliased, started>>
  /\ UNCHANGED <<genVars, pkgVars, selVars, svcVars>>

ClickEvent ==
  \E e \in ClickTargets :
    /\ Emit("click", clickInteraction(e), clickInteraction(e))
    /\ UNCHANGED currentUrl

InputEvent ==
  \E e \in InputTargets :
    \E v \in (IF DOM[e].type = "password" THEN PasswordValues ELSE TextValues) :
      \E w \in (IF DOM[e].type = "password" THEN PasswordValues \ {v} ELSE {v}) :
        /\ Emit("input", inputInteraction(e, v), inputInteraction(e, w))
        /\ UNCHANGED currentUrl

SubmitEvent ==
  \E e \in SubmitTargets :
    /\ Emit("submit", submitInteraction(e), submitInteraction(e))
    /\ UNCHANGED currentUrl

ScrollEvent ==
  \E pos \in ScrollPositions :
    /\ Emit("scroll", scrollInteraction(pos), scrollInteraction(pos))
    /\ UNCHANGED currentUrl

PopstateEventMutNoCompare ==
  /\ Emit("popstate", navigationInteraction(location), navigationInteraction(location))
  /\ currentUrl' = location

\* navigationHandler: nothing unless the URL differs from the last known one.
PopstateEvent ==
  IF location # currentUrl
  THEN /\ Emit("popstate", navigationInteraction(location), navigationInteraction(location))
       /\ currentUrl' = location
  ELSE /\ Listening("popstate") > 0
       /\ UNCHANGED vars

\* keyHandler: only the special keys are recorded.
KeydownEvent ==
  \E e \in KeyTargets : \E key \in Keys :
    IF key \in RecordedKeys
    THEN /\ Emit("keydown", keyInteraction(e, key), keyInteraction(e, key))
         /\ UNCHANGED currentUrl
    ELSE /\ Listening("keydown") > 0
         /\ UNCHANGED vars

\* The page moves to another URL without a reload (history API).
Navigate ==
  /\ \E u \in Urls \ {location} : location' = u
  /\ UNCHANGED <<isRecording, interactions, startTime, listeners, currentUrl,
                 attached, now, returned, aliased, twin, delivered, started>>
  /\ UNCHANGED <<genVars, pkgVars, selVars, svcVars>>

Tick ==
  /\ now < MaxClock
  /\ now' = now + 1
  /\ UNCHANGED <<isRecording, interactions, startTime, listeners, currentUrl,
                 attached, location, returned, aliased, twin, delivered, started>>
  /\ UNCHANGED <<genVars, pkgVars, selVars, svcVars>>

NextRec ==
  \/ StartRecording
  \/ StopRecording
  \/ Clear
  \/ ClickEvent
  \/ InputEvent
  \/ SubmitEvent
  \/ ScrollEvent
  \/ PopstateEvent
  \/ KeydownEvent
  \/ Navigate
  \/ Tick

SpecRec == InitRec /\ [][NextRec]_vars

(***************************************************************************)
(* Claims about the recorder (checked under SpecRec)                       *)
(***************************************************************************)
\* Every array a caller or the recorder holds.
Buffers == {interactions} \cup (IF returned = None THEN {} ELSE {returned[1]})

IsPasswordType(i) == i.action = "type" /\ i.inputType = "password"

\* C1: a 'type' interaction captured from a password input carries the text
\* '[PASSWORD]', never the typed value, and a second session that receives the
\* same events with other values typed into the password inputs has recorded
\* the very same interactions.
C1_PasswordRedacted ==
  /\ \A buf \in Buffers \cup {twin} : \A k \in 1..Len(buf) :
       IsPasswordType(buf[k]) =>
         buf[k].text = PASSWORD /\ buf[k].text \notin PasswordValues
  /\ twin = interactions

\* C1 witness: a password input event has been recorded (the second session
\* was given another value for it).
C1_Witness ==
  /\ Len(interactions) >= 2
  /\ \E k \in 1..Len(interactions) : IsPasswordType(interactions[k])

\* C2 (as claimed): every non-empty trace stopRecording returned starts with
\* a 'navigation' interaction, whatever start/stop/clear/DOM events came before.
C2_FirstIsNavigation ==
  (returned # None /\ Len(returned[1]) > 0) => returned[1][1].action = "navigation"

\* C3: in every trace relativeTime is non-decreasing in append order.
C3_RelativeTimeMonotone ==
  \A buf \in Buffers : \A j \in 1..Len(buf) : \A k \in j..Len(buf) :
    buf[j].relativeTime <= buf[k].relativeTime

\* C3 witness: two events recorded at different clock values after a clear()
\* during the recording made the start time null.
C3_Witness ==
  /\ isRecording
  /\ startTime = None
  /\ Len(interactions) >= 2
  /\ interactions[1].relativeTime < interactions[2].relativeTime

\* C12: a stopRecording call made while the recorder is not recording returns
\* an empty trace and leaves the recording flag, the buffer, the start time,
\* the stored listeners and the attached listeners as they were.
C12_StopWhenIdleIsNoop ==
  [][(StopRecording /\ ~isRecording) =>
       /\ returned' = Some(<<>>)
       /\ UNCHANGED <<isRecording, interactions, startTime, listeners, attached,
                      currentUrl>>]_vars

\* C12 witness: stopRecording returned an empty trace while the buffer still
\* holds the interactions of the session stopped before.
C12_Witness ==
  /\ ~isRecording
  /\ returned = Some(<<>>)
  /\ Len(interactions) >= 2
  /\ startTime # None

\* C13 (as claimed): a startRecording call made while the recorder is
\* recording ends with an outcome that differs from the outcome of the call
\* that started the session.
C13_AlreadyRecordingReported ==
  (isRecording /\ started # None) =>
    startRecordingOutcome(isRecording) # started[1]

EventFamilies == {"click", "input", "submit", "scroll", "popstate", "keydown"}

\* C14: right after a startRecording call made while not recording, the buffer
\* holds exactly one interaction, a navigation to the current location
\* (whatever it held before), and exactly one listener is attached for each
\* of the six event families, and no other.
C14_StartResetsSession ==
  [][(StartRecording /\ ~isRecording) =>
       /\ isRecording'
       /\ Len(interactions') = 1
       /\ interactions'[1].action = "navigation"
       /\ interactions'[1].url = location'
       /\ \A ev \in EventFamilies : Cardinality({r \in attached' : r.event = ev}) = 1
       /\ \A r \in attached' : r.event \in EventFamilies]_vars

\* C14 witness: a recording was started again after a session that recorded
\* events was stopped, and only the navigation is in the buffer.
C14_Witness ==
  /\ isRecording
  /\ Len(interactions) = 1
  /\ returned # None
  /\ Len(returned[1]) >= 2

\* C24: a startRecording call made while recording changes neither the
\* recording flag, the buffer, the start time, the last known URL nor the
\* listeners, stored or attached; so whatever start and stop calls are made,
\* at most one set of six listeners is attached, and the recorder stores
\* either no listener or one set of six.
C24_StartWhileRecordingIgnored ==
  /\ [][(StartRecording /\ isRecording) =>
          UNCHANGED <<isRecording, interactions, startTime, currentUrl,
                      listeners, attached>>]_vars
  /\ [](/\ Cardinality(attached) <= Len(ListenerSpecs)
         /\ Len(listeners) \in {0, Len(ListenerSpecs)})

\* C24 witness: a second session, started after a first one was stopped, is
\* recording with events in its buffer and one set of six listeners.
C24_Witness ==
  /\ isRecording
  /\ started # None
  /\ returned # None
  /\ Len(returned[1]) >= 1
  /\ Len(interactions) >= 2
  /\ Cardinality(attached) = Len(ListenerSpecs)
  /\ \A ev \in EventFamilies : Listening(ev) = 1

\* C15: the trace a stopRecording call returned changes by no later step of
\* the recorder; only another stopRecording call, which returns another
\* trace, replaces it.
C15_ReturnedTraceFrozen ==
  [][(returned # None /\ returned' # returned) => StopRecording]_vars

\* C15 witness: after a trace was returned, a new recording captured events
\* and the returned trace is still the one of the first session.
C15_Witness ==
  /\ returned # None
  /\ Len(returned[1]) = 1
  /\ isRecording
  /\ Len(interactions) >= 2

\* C20: a popstate notification appends a navigation interaction exactly when
\* the location differs from the last known URL, and then makes the location
\* the last known URL; an unchanged location appends nothing.  So in every
\* buffer two navigation interactions with no other navigation between them
\* carry different URLs.
C20_NavigationOnlyOnChange ==
  /\ [][PopstateEvent =>
          IF location # currentUrl
          THEN /\ Len(interactions') = Len(interactions) + 1
               /\ SubSeq(interactions', 1, Len(interactions)) = interactions
               /\ interactions'[Len(interactions')].action = "navigation"
               /\ interactions'[Len(interactions')].url = location
               /\ currentUrl' = location
          ELSE /\ interactions' = interactions
               /\ currentUrl' = currentUrl]_vars
  /\ [](\A buf \in Buffers : \A j, k \in 1..Len(buf) :
          (/\ j < k
           /\ buf[j].action = "navigation" /\ buf[k].action = "navigation"
           /\ \A m \in (j + 1)..(k - 1) : buf[m].action # "navigation")
          => buf[j].url # buf[k].url)

\* C20 witness: the location changed during the recording and the popstate
\* notification was recorded after the initial navigation.
C20_Witness ==
  /\ Len(interactions) >= 2
  /\ interactions[1].action = "navigation"
  /\ interactions[2].action = "navigation"
  /\ interactions[1].url # interactions[2].url
  /\ currentUrl = interactions[2].url

\* C4: whenever the recorder is not recording, no listener it registered is
\* still attached to document or window.
C4_NoListenerLeak == ~isRecording => attached = {}

\* C4 witness: a recording that captured events has been stopped.
C4_Witness ==
  /\ ~isRecording
  /\ returned # None
  /\ Len(returned[1]) >= 2

(***************************************************************************)
(* Traces handed to the backend                                            *)
(***************************************************************************)
MaxTrace == 2    \* interactions in a trace handed to the backend

NavPlain == [action |-> "navigation", url |-> <<"https:", "//a.test/">>]
NavQuery ==
  [action |-> "navigation",
   url |-> <<"https:", "//a.test/", "?", "q", "=", "tla", "&", "timeout", "=", "5">>]
\* A relative address: new URL() throws on it, though it carries a query.
NavMalformed ==
  [action |-> "navigation", url |-> <<"a.test/home", "?", "user", "=", "x">>]
ClickGo ==
  [action |-> "click", selector |-> <<"#", "go">>, element |-> "button",
   coordinates |-> <<0, 0>>, text |-> <<"Go">>]
\* A text of ten characters.
TypeUser ==
  [action |-> "type", selector |-> <<"[", "name=", "\"", "user", "\"", "]">>,
   element |-> "input", text |-> <<"hello", "world">>, inputType |-> "text"]
\* A second field with the same name attribute, holding a number.
TypeUserAgain ==
  [action |-> "type",
   selector |-> <<"form > ", "input", "[", "name=", "\"", "user", "\"", "]">>,
   element |-> "input", text |-> <<"4", "2">>, inputType |-> "text"]
\* An input event that left the field empty.
TypeEmpty ==
  [action |-> "type", selector |-> <<"#", "q">>, element |-> "input",
   text |-> <<>>, inputType |-> "text"]
TypePassword ==
  [action |-> "type", selector |-> <<"[", "name=", "\"", "pass", "\"", "]">>,
   element |-> "input", text |-> PASSWORD, inputType |-> "password"]
ScrollDown == [action |-> "scroll", x |-> 0, y |-> 100]
SubmitForm == [action |-> "submit", selector |-> <<"#", "login">>, element |-> "form"]
PressEnter == [action |-> "keypress", key |-> "Enter", selector |-> <<"document">>]
WaitFor == [action |-> "wait", selector |-> <<"#", "go">>]
Hover == [action |-> "hover", selector |-> <<"#", "go">>]

TraceItems ==
  {NavPlain, NavQuery, NavMalformed, ClickGo, TypeUser, TypeUserAgain,
   TypeEmpty, TypePassword, ScrollDown, SubmitForm, PressEnter, WaitFor, Hover}

Traces == UNION {[1..n -> TraceItems] : n \in 0..MaxTrace}

(***************************************************************************)
(* APIExportService.extractAPIParameters                                   *)
(***************************************************************************)
\* The text a sequence of tokens stands for.
RECURSIVE Join(_)
Join(toks) == IF toks = <<>> THEN "" ELSE Head(toks) \o Join(Tail(toks))

Schemes == {"https:", "http:"}

\* new URL(url) throws unless the text starts with a scheme.
URLParses(url) == Len(url) > 0 /\ url[1] \in Schemes

\* url.search: the text from "?" up to "#", empty when nothing follows the "?".
URLSearch(url) ==
  LET q == indexOf(url, "?")
      h == indexOf(url, "#")
      end == IF h = -1 THEN Len(url) ELSE h
  IN IF q = -1 \/ (h # -1 /\ h < q) THEN <<>> ELSE SubSeq(url, q + 2, end)

\* new URLSearchParams(search), in forEach order: the text is cut at each "&",
\* each piece at its first "=".
RECURSIVE URLSearchParams(_)
URLSearchParams(search) ==
  IF search = <<>> THEN <<>>
  ELSE LET amp == indexOf(search, "&")
           piece == IF amp = -1 THEN search ELSE SubSeq(search, 1, amp)
           rest == IF amp = -1 THEN <<>> ELSE SubSeq(search, amp + 2, Len(search))
           eq == indexOf(piece, "=")
       IN (IF piece = <<>> THEN <<>>
           ELSE <<[key |-> IF eq = -1 THEN piece ELSE SubSeq(piece, 1, eq),
                   value |-> IF eq = -1 THEN <<>> ELSE SubSeq(piece, eq + 2, Len(piece))]>>)
          \o URLSearchParams(rest)

\* selector.match(/attr="([^"]+)"/)?.[1] || 'field', for attr one of the
\* pieces "name=" and "id=": the first place where the piece is followed by a
\* quote, a non-empty value and a quote.
MatchAttribute(selector, attr) ==
  LET hits == {k \in 1..(Len(selector) - 3) :
                 /\ selector[k] = attr
                 /\ selector[k + 1] = "\""
                 /\ selector[k + 2] # "\""
                 /\ selector[k + 3] = "\""}
  IN IF hits = {} THEN "field"
     ELSE selector[(CHOOSE k \in hits : \A j \in hits : k <= j) + 2]

extractFieldName(selector) ==
  IF "name=" \in Range(selector) THEN MatchAttribute(selector, "name=")
  ELSE IF "id=" \in Range(selector) THEN MatchAttribute(selector, "id=")
  ELSE "field"

Digits == {"0", "1", "2", "3", "4", "5", "6", "7", "8", "9"}

\* inferParameterType on a text (the texts modelled are strings, so the
\* typeof value === 'boolean' test is false): a text made of digits parses as
\* a number, one holding "@" is an email.
inferParameterType(value) ==
  IF value # <<>> /\ \A k \in 1..Len(value) : value[k] \in Digits THEN "number"
  ELSE IF "@" \in Range(value) THEN "email"
  ELSE "string"

UrlParameter(pair) ==
  [name |-> Join(pair.key), type |-> "string",
   description |-> <<"URL parameter from navigation">>,
   example |-> pair.value, required |-> FALSE]

InteractionParametersMutNoParseCheck(interaction) ==
  IF interaction.action = "navigation"
  THEN LET pairs == URLSearchParams(URLSearch(interaction.url))
       IN [k \in 1..Len(pairs) |-> UrlParameter(pairs[k])]
  ELSE IF interaction.action = "type"
  THEN IF interaction.text # <<>> /\ interaction.text # PASSWORD
       THEN <<[name |-> extractFieldName(interaction.selector),
               type |-> inferParameterType(interaction.text),
               description |-> <<"Input field: ">> \o interaction.selector,
               example |-> interaction.text,
               required |-> TRUE,
               sensitive |-> (interaction.inputType = "password")]>>
       ELSE <<>>
  ELSE <<>>

\* What one interaction pushes onto `parameters`.
InteractionParameters(interaction) ==
  IF interaction.action = "navigation"
  THEN IF URLParses(interaction.url)
       THEN LET pairs == URLSearchParams(URLSearch(interaction.url))
            IN [k \in 1..Len(pairs) |-> UrlParameter(pairs[k])]
       ELSE <<>>
  ELSE IF interaction.action = "type"
  THEN IF interaction.text # <<>> /\ interaction.text # PASSWORD
       THEN <<[name |-> extractFieldName(interaction.selector),
               type |-> inferParameterType(interaction.text),
               description |-> <<"Input field: ">> \o interaction.selector,
               example |-> interaction.text,
               required |-> TRUE,
               sensitive |-> (interaction.inputType = "password")]>>
       ELSE <<>>
  ELSE <<>>

RECURSIVE CollectParameters(_)
CollectParameters(its) ==
  IF its = <<>> THEN <<>>
  ELSE InteractionParameters(Head(its)) \o CollectParameters(Tail(its))

DefaultTimeout == 30000

HeadlessParameter ==
  [name |-> "headless", type |-> "boolean",
   description |-> <<"Run browser in headless mode">>,
   example |-> <<"true">>, required |-> FALSE, default |-> <<"true">>]

TimeoutParameter ==
  [name |-> "timeout", type |-> "integer",
   description |-> <<"Maximum timeout in milliseconds">>,
   example |-> <<ToString(DefaultTimeout)>>, required |-> FALSE,
   default |-> <<ToString(DefaultTimeout)>>]

deduplicateParametersMutLastWins(parameters) ==
  LET Keep(k) == \A j \in (k + 1)..Len(parameters) : parameters[j].name # parameters[k].name
      F[k \in 0..Len(parameters)] ==
        IF k = 0 THEN <<>>
        ELSE IF Keep(k) THEN Append(F[k - 1], parameters[k]) ELSE F[k - 1]
  IN F[Len(parameters)]

\* deduplicateParameters: the filter keeps a parameter when no earlier one
\* has its name.
deduplicateParameters(parameters) ==
  LET Keep(k) == \A j \in 1..(k - 1) : parameters[j].name # parameters[k].name
      F[k \in 0..Len(parameters)] ==
        IF k = 0 THEN <<>>
        ELSE IF Keep(k) THEN Append(F[k - 1], parameters[k]) ELSE F[k - 1]
  IN F[Len(parameters)]

extractAPIParameters(its) ==
  deduplicateParameters(
    CollectParameters(its) \o <<HeadlessParameter, TimeoutParameter>>)

(***************************************************************************)
(* ScriptGenerator: the four generators                                    *)
(*                                                                         *)
(* A generated text is the sequence of its lines; a line is the call or    *)
(* comment it holds (op) and the texts interpolated into it (args).        *)
(***************************************************************************)
Line(op, args) == [op |-> op, args |-> args]

\* A text between single quotes in the generated source: a string literal.
Quote(text) == <<"'">> \o text \o <<"'">>

\* new Date().toISOString()
toISOString(t) == <<ToString(t)>>

RECURSIVE Flatten(_)
Flatten(blocks) == IF blocks = <<>> THEN <<>> ELSE Head(blocks) \o Flatten(Tail(blocks))

\* Array.prototype.join('\n\n') on blocks of lines.
RECURSIVE JoinBlocks(_)
JoinBlocks(blocks) ==
  IF blocks = <<>> THEN <<>>
  ELSE IF Len(blocks) = 1 THEN Head(blocks)
  ELSE Head(blocks) \o <<Line("", <<>>)>> \o JoinBlocks(Tail(blocks))

StepComment(index, label) == Line("// Step", <<<<ToString(index + 1)>>, <<label>>>>)

\* `x || 0` on a scroll offset.
OrZero(x) == x

SelectorTimeout == 10000
WaitTimeout == 15000
ClickPause == 500
ScrollPause == 300

\* What line 154 puts in place of the sentinel: the characters of a template
\* placeholder, written between single quotes.
ConfigPasswordPlaceholder == <<"${config.password || \"[PASSWORD]\"}">>

generateInteractionCodeMutClock(interaction, index) ==
  <<Line("// Step", <<<<ToString(index + 1)>>, <<interaction.action>>, toISOString(DateNow)>>)>>

\* generateInteractionCode(interaction, index), the Playwright statements.
generateInteractionCode(interaction, index) ==
  LET stepComment == StepComment(index, interaction.action) IN
  CASE interaction.action = "navigation" ->
         <<stepComment,
           Line("console.log", <<Quote(<<"Navigating to: ">> \o interaction.url)>>),
           Line("page.goto", <<Quote(interaction.url), <<"networkidle">>>>),
           Line("page.waitForLoadState", <<Quote(<<"domcontentloaded">>)>>)>>
    [] interaction.action = "click" ->
         <<stepComment,
           Line("console.log", <<Quote(<<"Clicking element: ">> \o interaction.selector)>>),
           Line("page.waitForSelector",
                <<Quote(interaction.selector), <<ToString(SelectorTimeout)>>>>),
           Line("page.click", <<Quote(interaction.selector)>>),
           Line("page.waitForTimeout", <<<<ToString(ClickPause)>>>>)>>
    [] interaction.action = "type" ->
         LET text == IF interaction.text = PASSWORD
                     THEN ConfigPasswordPlaceholder ELSE interaction.text
         IN <<stepComment,
              Line("console.log", <<Quote(<<"Typing into element: ">> \o interaction.selector)>>),
              Line("page.waitForSelector",
                   <<Quote(interaction.selector), <<ToString(SelectorTimeout)>>>>),
              Line("page.fill", <<Quote(interaction.selector), Quote(text)>>)>>
    [] interaction.action = "scroll" ->
         <<stepComment,
           Line("console.log",
                <<Quote(<<"Scrolling to position: ", ToString(interaction.x), ", ",
                          ToString(interaction.y)>>)>>),
           Line("window.scrollTo",
                <<<<ToString(OrZero(interaction.x))>>, <<ToString(OrZero(interaction.y))>>>>),
           Line("page.waitForTimeout", <<<<ToString(ScrollPause)>>>>)>>
    [] interaction.action = "wait" ->
         <<stepComment,
           Line("console.log", <<Quote(<<"Waiting for element: ">> \o interaction.selector)>>),
           Line("page.waitForSelector",
                <<Quote(interaction.selector), <<ToString(WaitTimeout)>>>>)>>
    [] interaction.action = "keypress" ->
         <<stepComment,
           Line("console.log", <<Quote(<<"Pressing key: ", interaction.key>>)>>),
           Line("page.keyboard.press", <<Quote(<<interaction.key>>)>>)>>
    [] interaction.action = "submit" ->
         <<stepComment,
           Line("console.log", <<Quote(<<"Submitting form: ">> \o interaction.selector)>>),
           Line("page.waitForSelector",
                <<Quote(interaction.selector), <<ToString(SelectorTimeout)>>>>),
           Line("page.click", <<Quote(interaction.selector)>>),
           Line("page.waitForLoadState", <<Quote(<<"networkidle">>)>>)>>
    [] OTHER ->
         <<stepComment, Line("// Unsupported action:", <<<<interaction.action>>>>)>>

generateBasicPlaywrightScript(its) ==
  <<Line("header", <<<<"playwright">>, <<"Created: ">> \o toISOString(DateNow),
                     <<"Interactions: ", ToString(Len(its))>>>>)>>
  \o Flatten([k \in 1..Len(its) |-> generateInteractionCode(its[k], k - 1)])
  \o <<Line("footer", <<<<"playwright">>>>)>>

\* The switch of generatePuppeteerScript: three cases and no default.
PuppeteerCase(interaction, index) ==
  CASE interaction.action = "navigation" ->
         <<StepComment(index, "Navigate"),
           Line("page.goto", <<Quote(interaction.url), <<"networkidle2">>>>)>>
    [] interaction.action = "click" ->
         <<StepComment(index, "Click"),
           Line("page.waitForSelector", <<Quote(interaction.selector)>>),
           Line("page.click", <<Quote(interaction.selector)>>)>>
    [] interaction.action = "type" ->
         <<StepComment(index, "Type"),
           Line("page.waitForSelector", <<Quote(interaction.selector)>>),
           Line("page.type", <<Quote(interaction.selector), Quote(interaction.text)>>)>>
    [] OTHER -> <<>>

generatePuppeteerScript(its) ==
  <<Line("header", <<<<"puppeteer">>, <<"Generated: ">> \o toISOString(DateNow)>>)>>
  \o Flatten([k \in 1..Len(its) |-> PuppeteerCase(its[k], k - 1)])
  \o <<Line("footer", <<<<"puppeteer">>>>)>>

SeleniumCase(interaction, index) ==
  CASE interaction.action = "navigation" ->
         <<StepComment(index, "Navigate"),
           Line("driver.get", <<Quote(interaction.url)>>)>>
    [] interaction.action = "click" ->
         <<StepComment(index, "Click"),
           Line("driver.wait",
                <<Quote(interaction.selector), <<ToString(SelectorTimeout)>>>>),
           Line("click", <<Quote(interaction.selector)>>)>>
    [] interaction.action = "type" ->
         <<StepComment(index, "Type"),
           Line("driver.wait",
                <<Quote(interaction.selector), <<ToString(SelectorTimeout)>>>>),
           Line("sendKeys", <<Quote(interaction.selector), Quote(interaction.text)>>)>>
    [] OTHER -> <<StepComment(index, interaction.action)>>

generateSeleniumScript(its) ==
  <<Line("header", <<<<"selenium">>, <<"Generated: ">> \o toISOString(DateNow)>>)>>
  \o JoinBlocks([k \in 1..Len(its) |-> SeleniumCase(its[k], k - 1)])
  \o <<Line("footer", <<<<"selenium">>>>)>>

CypressCaseMutClickByText(interaction, index) ==
  CASE interaction.action = "navigation" ->
         <<StepComment(index, "Navigate"),
           Line("cy.visit", <<Quote(interaction.url)>>)>>
    [] interaction.action = "click" ->
         <<StepComment(index, "Click"),
           Line("cy.contains.click", <<Quote(interaction.text)>>)>>
    [] interaction.action = "type" ->
         <<StepComment(index, "Type"),
           Line("cy.get.type", <<Quote(interaction.selector), Quote(interaction.text)>>)>>
    [] OTHER -> <<StepComment(index, interaction.action)>>

CypressCase(interaction, index) ==
  CASE interaction.action = "navigation" ->
         <<StepComment(index, "Navigate"),
           Line("cy.visit", <<Quote(interaction.url)>>)>>
    [] interaction.action = "click" ->
         <<StepComment(index, "Click"),
           Line("cy.get.click", <<Quote(interaction.selector)>>)>>
    [] interaction.action = "type" ->
         <<StepComment(index, "Type"),
           Line("cy.get.type", <<Quote(interaction.selector), Quote(interaction.text)>>)>>
    [] OTHER -> <<StepComment(index, interaction.action)>>

generateCypressScript(its) ==
  <<Line("header", <<<<"cypress">>, <<"Generated: ">> \o toISOString(DateNow)>>)>>
  \o JoinBlocks([k \in 1..Len(its) |-> CypressCase(its[k], k - 1)])
  \o <<Line("footer", <<<<"cypress">>>>)>>

Targets == {"playwright", "puppeteer", "selenium", "cypress"}

Synthesized(target, its) ==
  CASE target = "playwright" -> generateBasicPlaywrightScript(its)
    [] target = "puppeteer" -> generatePuppeteerScript(its)
    [] target = "selenium" -> generateSeleniumScript(its)
    [] target = "cypress" -> generateCypressScript(its)

(***************************************************************************)
(* Synthesis of one trace: the trace is drawn at the start, the generators *)
(* are called in any order and at any time; `out` holds what the last two  *)
(* consecutive calls of one generator returned.                            *)
(***************************************************************************)
RecIdle ==
  /\ isRecording = FALSE /\ interactions = <<>> /\ startTime = None
  /\ listeners = <<>> /\ location = <<"https:", "//a.test/">>
  /\ currentUrl = location /\ attached = {} /\ now = 1
  /\ returned = None /\ aliased = FALSE /\ twin = <<>> /\ delivered = 0
  /\ started = None

InitGen ==
  /\ RecIdle
  /\ SelIdle
  /\ SvcIdle
  /\ PkgIdle
  /\ trace \in Traces
  /\ out = <<>>
  /\ params = None
  /\ estimate = None
  /\ security = None

Synthesize(target) ==
  LET new == [target |-> target, text |-> Synthesized(target, trace)] IN
  /\ out' = IF out # <<>> /\ out[Len(out)].target = target
            THEN <<out[Len(out)], new>> ELSE <<new>>
  /\ UNCHANGED <<trace, params, estimate, security, recVars, pkgVars, selVars, svcVars>>

SynthesizePlaywright == Synthesize("playwright")
SynthesizePuppeteer == Synthesize("puppeteer")
SynthesizeSelenium == Synthesize("selenium")
SynthesizeCypress == Synthesize("cypress")

NextGen ==
  \/ SynthesizePuppeteer
  \/ SynthesizePlaywright
  \/ SynthesizeSelenium
  \/ SynthesizeCypress
  \/ Tick

SpecGen == InitGen /\ [][NextGen]_vars

\* extractAPIParameters called on the trace.
ExtractParametersMutConsumes ==
  /\ params' = Some(extractAPIParameters(trace))
  /\ trace' = <<>>
  /\ UNCHANGED <<out, estimate, security, recVars, pkgVars, selVars, svcVars>>

ExtractParameters ==
  /\ params' = Some(extractAPIParameters(trace))
  /\ UNCHANGED <<trace, out, estimate, security, recVars, pkgVars, selVars, svcVars>>

(***************************************************************************)
(* Claims about synthesis (SpecGen) and parameter extraction (SpecExt)     *)
(***************************************************************************)
IsStepLine(line) == line.op = "// Step"

\* The step markers of a generated text, in order.
StepLines(text) == SelectSeq(text, IsStepLine)

\* The lines generated for step n: from its marker to the next marker.
BlockOf(text, n) ==
  LET at == {k \in 1..Len(text) : IsStepLine(text[k]) /\ text[k].args[1] = <<ToString(n)>>}
  IN IF at = {} THEN <<>>
     ELSE LET first == CHOOSE k \in at : \A j \in at : k <= j
              after == {k \in (first + 1)..Len(text) :
                          IsStepLine(text[k]) \/ text[k].op = "footer"}
              last == IF after = {} THEN Len(text)
                      ELSE (CHOOSE k \in after : \A j \in after : k <= j) - 1
          IN SubSeq(text, first, last)

\* C6 (as claimed): every generated text holds exactly one step per
\* interaction, numbered 1..n in trace order, for each of the four targets.
C6_OneStepPerInteraction ==
  \A r \in Range(out) :
    /\ Len(StepLines(r.text)) = Len(trace)
    /\ \A k \in 1..Len(StepLines(r.text)) : StepLines(r.text)[k].args[1] = <<ToString(k)>>

\* The kinds some generator has a case for.
RecognizedActions ==
  {"navigation", "click", "type", "scroll", "wait", "keypress", "submit"}

\* C7 (as claimed): an interaction of an unrecognized kind shows in the text
\* of every target as a marker carrying its position in the trace.
C7_UnknownKindVisible ==
  \A r \in Range(out) : \A k \in 1..Len(trace) :
    trace[k].action \notin RecognizedActions => BlockOf(r.text, k) # <<>>

TypeCalls == {"page.fill", "page.type", "sendKeys", "cy.get.type"}

\* The typed value is an expression that reads the run-time configuration: not
\* a quoted string literal, and naming the config object.
TakenFromConfig(value) ==
  /\ value # <<>>
  /\ value[1] \notin {"'", "\""}
  /\ \E k \in 1..Len(value) : value[k] \in {"config.password"} \cup Range(ConfigPasswordPlaceholder)

\* C8 (as claimed): for every target, the statement compiled from a Type
\* interaction that carries the '[PASSWORD]' sentinel types a value taken from
\* the run-time configuration, not the literal sentinel.
C8_SentinelFromConfig ==
  \A r \in Range(out) : \A k \in 1..Len(trace) :
    (trace[k].action = "type" /\ trace[k].text = PASSWORD) =>
      \E j \in 1..Len(BlockOf(r.text, k)) :
        /\ BlockOf(r.text, k)[j].op \in TypeCalls
        /\ TakenFromConfig(BlockOf(r.text, k)[j].args[2])

\* C9 (as claimed): two calls of one generator on the same trace return the
\* same text, whenever they are made.
C9_SameTextTwice == Len(out) = 2 => out[1].text = out[2].text

\* Two texts that differ at most in the date their header carries.
SameButDate(a, b) ==
  /\ Len(a) = Len(b)
  /\ \A k \in 1..Len(a) :
       \/ a[k] = b[k]
       \/ /\ a[k].op = "header" /\ b[k].op = "header"
          /\ Len(a[k].args) = Len(b[k].args)
          /\ \A j \in 1..Len(a[k].args) : j # 2 => a[k].args[j] = b[k].args[j]

\* C9 (amended): two calls of one generator on the same trace return texts
\* that differ at most in the generation date of the header comment.
C9_SameTextButDate == Len(out) = 2 => SameButDate(out[1].text, out[2].text)

\* C9 witness: the same generator ran twice on a trace of two interactions, at
\* two clock values, and the two texts differ.
C9_Witness ==
  /\ Len(out) = 2
  /\ Len(trace) >= 2
  /\ out[1].text # out[2].text

\* C10 (as claimed): the list extractAPIParameters returns ends with the
\* injected parameters headless (boolean) and timeout (integer).
C10_EndsWithConfigParameters ==
  params # None =>
    LET list == params[1] IN
    /\ Len(list) >= 2
    /\ list[Len(list) - 1].name = "headless" /\ list[Len(list) - 1].type = "boolean"
    /\ list[Len(list)].name = "timeout" /\ list[Len(list)].type = "integer"

\* The interactions of the trace recorded on a password input, and its
\* form submissions.
PasswordInputs == {i \in Range(trace) : i.action = "type" /\ i.inputType = "password"}
Submissions == {i \in Range(trace) : i.action = "submit"}

\* C22: analyzeSecurity returns a summary for every trace, with requiresAuth
\* and sensitiveData both telling whether some interaction has input kind
\* 'password', and hasFormSubmission telling whether some interaction is a
\* submit.
C22_SecuritySummary ==
  security # None =>
    /\ security[1].requiresAuth = (PasswordInputs # {})
    /\ security[1].sensitiveData = (PasswordInputs # {})
    /\ security[1].hasFormSubmission = (Submissions # {})

\* C22 witness: the summary of a trace with a password input and no submit.
C22_Witness ==
  /\ security # None
  /\ PasswordInputs # {} /\ Submissions = {}
  /\ security[1].requiresAuth /\ ~security[1].hasFormSubmission

\* The trace without its k-th interaction.
Without(its, k) == SubSeq(its, 1, k - 1) \o SubSeq(its, k + 1, Len(its))

\* The positions of the trace holding a navigation whose address new URL()
\* rejects.
Unparsable ==
  {k \in 1..Len(trace) :
     trace[k].action = "navigation" /\ ~URLParses(trace[k].url)}

\* C21: a navigation whose URL cannot be parsed contributes no parameter and
\* raises no error: extraction returned a list, the list it returns for the
\* trace with that interaction removed.
C21_MalformedUrlSkipped ==
  params # None =>
    \A k \in Unparsable : params[1] = extractAPIParameters(Without(trace, k))

\* C21 witness: extraction ran on a trace whose first interaction is a
\* navigation to an unparsable address that carries a query, and whose second
\* interaction contributed its parameter.
C21_Witness ==
  /\ params # None
  /\ Len(trace) = 2
  /\ 1 \in Unparsable
  /\ URLSearch(trace[1].url) # <<>>
  /\ trace[2] = TypeUser
  /\ Len(params[1]) = 3
  /\ params[1][1].example = TypeUser.text

\* The parameters the interactions of the trace contribute, in trace order,
\* followed by the two injected ones: what is pushed before deduplication.
Contributed == CollectParameters(trace) \o <<HeadlessParameter, TimeoutParameter>>

\* The positions of Contributed that hold the first parameter of their name.
FirstOfName ==
  {k \in 1..Len(Contributed) :
     \A j \in 1..(k - 1) : Contributed[j].name # Contributed[k].name}

\* C11: the list extractAPIParameters returns has no two parameters of one
\* name; it holds, for each name, the parameter of the earliest contribution,
\* unchanged, and the kept parameters are in their order of contribution.
C11_FirstOccurrenceWins ==
  params # None =>
    LET list == params[1] IN
    /\ \A i, j \in 1..Len(list) : list[i].name = list[j].name => i = j
    /\ Len(list) = Cardinality(FirstOfName)
    /\ \A i \in 1..Len(list) :
         \E k \in FirstOfName :
           /\ Cardinality({j \in FirstOfName : j <= k}) = i
           /\ list[i] = Contributed[k]

\* C11 witness: two Type interactions of the trace map to the same name with
\* different values, and extraction returned one parameter for them.
C11_Witness ==
  /\ params # None
  /\ Len(trace) = 2
  /\ trace[1].action = "type" /\ trace[2].action = "type"
  /\ Len(CollectParameters(trace)) = 2
  /\ CollectParameters(trace)[1].name = CollectParameters(trace)[2].name
  /\ CollectParameters(trace)[1] # CollectParameters(trace)[2]
  /\ Len(params[1]) = 3

\* What a statement compiled from the interaction has to name: the URL of a
\* navigation, the selector of a click or a type.
Referent(interaction) ==
  IF interaction.action = "navigation" THEN interaction.url ELSE interaction.selector

\* The line interpolates the text as one of its quoted arguments.
References(line, text) == \E k \in 1..Len(line.args) : line.args[k] = Quote(text)

\* The referents of the interactions occur in lines from..Len(text) of the
\* text, one line each, in the order of the interactions.
RECURSIVE RefersInOrder(_, _, _)
RefersInOrder(text, its, from) ==
  IF its = <<>> THEN TRUE
  ELSE LET hits == {j \in from..Len(text) : References(text[j], Referent(Head(its)))}
       IN /\ hits # {}
          /\ RefersInOrder(text, Tail(its),
                           (CHOOSE j \in hits : \A i \in hits : j <= i) + 1)

\* C16: for a trace made of navigation, click and type interactions only, the
\* text of each target names the URL or selector of every interaction, in
\* trace order.
C16_ReferencesInOrder ==
  \A r \in Range(out) :
    (\A k \in 1..Len(trace) : trace[k].action \in {"navigation", "click", "type"})
      => RefersInOrder(r.text, trace, 1)

\* C16 witness: the Cypress text of [Navigation(X), Click(S)] was generated.
C16_Witness ==
  /\ trace = <<NavPlain, ClickGo>>
  /\ out # <<>>
  /\ out[Len(out)].target = "cypress"
  /\ RefersInOrder(out[Len(out)].text, trace, 1)

(***************************************************************************)
(* ScriptGenerator.estimateRuntime and generateConfigFile                  *)
(***************************************************************************)
\* String.prototype.length of a text given as tokens.
RECURSIVE Length(_)
Length(text) == IF text = <<>> THEN 0 ELSE Len(Head(text)) + Length(Tail(text))

InteractionCost(interaction) ==
  CASE interaction.action = "navigation" -> 3000
    [] interaction.action = "click" -> 500
    [] interaction.action = "type" ->
         IF interaction.text # <<>> THEN Length(interaction.text) * 50 ELSE 500
    [] interaction.action = "scroll" -> 300
    [] interaction.action = "wait" -> 2000
    [] OTHER -> 200

RECURSIVE EstimatedMs(_)
EstimatedMs(its) ==
  IF its = <<>> THEN 0 ELSE InteractionCost(Head(its)) + EstimatedMs(Tail(its))

estimateRuntimeMutFloor(its) == <<ToString(EstimatedMs(its) \div 1000), "s">>

\* Math.ceil(estimatedMs / 1000), then the "s" suffix.
estimateRuntime(its) == <<ToString((EstimatedMs(its) + 999) \div 1000), "s">>

\* estimateRuntime called on the trace.
EstimateRuntime ==
  /\ estimate' = Some(estimateRuntime(trace))
  /\ UNCHANGED <<trace, out, params, security, recVars, pkgVars, selVars, svcVars>>

(***************************************************************************)
(* APIExportService.analyzeSecurity                                        *)
(***************************************************************************)
analyzeSecurityMutAuthNeedsSubmit(its) ==
  LET hasPasswordFields ==
        \E k \in 1..Len(its) :
          "inputType" \in DOMAIN its[k] /\ its[k].inputType = "password"
      hasFormSubmission == \E k \in 1..Len(its) : its[k].action = "submit"
  IN [requiresAuth |-> hasPasswordFields /\ hasFormSubmission,
      hasFormSubmission |-> hasFormSubmission,
      sensitiveData |-> hasPasswordFields,
      recommendations |->
        IF hasPasswordFields
        THEN <<"Use environment variables for sensitive data",
               "Implement proper authentication">>
        ELSE <<"Consider rate limiting", "Validate input parameters">>]

analyzeSecurity(its) ==
  LET hasPasswordFields ==
        \E k \in 1..Len(its) :
          "inputType" \in DOMAIN its[k] /\ its[k].inputType = "password"
      hasFormSubmission == \E k \in 1..Len(its) : its[k].action = "submit"
  IN [requiresAuth |-> hasPasswordFields,
      hasFormSubmission |-> hasFormSubmission,
      sensitiveData |-> hasPasswordFields,
      recommendations |->
        IF hasPasswordFields
        THEN <<"Use environment variables for sensitive data",
               "Implement proper authentication">>
        ELSE <<"Consider rate limiting", "Validate input parameters">>]

\* analyzeSecurity called on the trace.
AnalyzeSecurity ==
  /\ security' = Some(analyzeSecurity(trace))
  /\ UNCHANGED <<trace, out, params, estimate, recVars, pkgVars, selVars, svcVars>>

(***************************************************************************)
(* The functions of one trace: parameter extraction, runtime estimate and  *)
(* security classification, called in any order.                           *)
(***************************************************************************)
NextExt ==
  \/ ExtractParameters
  \/ EstimateRuntime
  \/ AnalyzeSecurity

SpecExt == InitGen /\ [][NextExt]_vars

\* The milliseconds of the cost table as the claim states it: each kind
\* counted, every Type interaction costing 50 per character of its text.
Count(its, action) == Cardinality({k \in 1..Len(its) : its[k].action = action})

RECURSIVE TypedChars(_)
TypedChars(its) ==
  IF its = <<>> THEN 0
  ELSE (IF Head(its).action = "type" THEN Length(Head(its).text) ELSE 0)
       + TypedChars(Tail(its))

CostedKinds == {"navigation", "click", "scroll", "wait", "type"}

TableMs(its) ==
  3000 * Count(its, "navigation") + 500 * Count(its, "click")
  + 300 * Count(its, "scroll") + 2000 * Count(its, "wait")
  + 50 * TypedChars(its)
  + 200 * Cardinality({k \in 1..Len(its) : its[k].action \notin CostedKinds})

EmptyTypes(its) ==
  Cardinality({k \in 1..Len(its) : its[k].action = "type" /\ its[k].text = <<>>})

\* The least number of whole seconds that covers ms milliseconds.
CeilSeconds(ms) == CHOOSE n \in 0..(ms \div 1000 + 1) :
                     n * 1000 >= ms /\ (n = 0 \/ (n - 1) * 1000 < ms)

\* C17 (as claimed): estimateRuntime reports ceil(S / 1000) seconds, S being
\* 3000 per navigation, 500 per click, 300 per scroll, 2000 per wait, 50 per
\* character typed and 200 per interaction of any other kind.
C17_EstimateFromTable ==
  estimate # None =>
    estimate[1] = <<ToString(CeilSeconds(TableMs(trace))), "s">>

\* C17 (amended): as claimed, a Type interaction whose text is empty counting
\* 500 instead of nothing.
C17_EstimateFromTableEmptyType ==
  estimate # None =>
    estimate[1] = <<ToString(CeilSeconds(TableMs(trace) + 500 * EmptyTypes(trace))), "s">>

\* C17 witness: the estimate of a navigation and a Type of ten characters is
\* 4 seconds.
C17_Witness ==
  /\ trace = <<NavPlain, TypeUser>>
  /\ Length(TypeUser.text) = 10
  /\ estimate = Some(<<"4", "s">>)

\* [...new Set(list)]: first occurrences, in order.
Unique(list) ==
  LET F[k \in 0..Len(list)] ==
        IF k = 0 THEN <<>>
        ELSE IF \E j \in 1..(k - 1) : list[j] = list[k] THEN F[k - 1]
        ELSE Append(F[k - 1], list[k])
  IN F[Len(list)]

IsNavigation(interaction) == interaction.action = "navigation"
HasSelector(interaction) ==
  "selector" \in DOMAIN interaction /\ interaction.selector # <<>>
HasSentinel(interaction) ==
  "text" \in DOMAIN interaction /\ interaction.action = "type" /\ interaction.text = PASSWORD

generateConfigFile(its, an) ==
  LET navs == SelectSeq(its, IsNavigation)
      withSelector == SelectSeq(its, HasSelector)
  IN [name |-> <<"Automation_", ToString(DateNow)>>,
      description |-> an.workflow,
      complexity |-> an.complexity,
      estimatedDuration |-> estimateRuntime(its),
      urls |-> Unique([k \in 1..Len(navs) |-> navs[k].url]),
      selectors |-> Unique([k \in 1..Len(withSelector) |-> withSelector[k].selector]),
      passwordFields |-> Len(SelectSeq(its, HasSentinel)),
      sensitiveData |-> an.security]

(***************************************************************************)
(* AIService                                                               *)
(***************************************************************************)
models == <<"gemini-2.5-flash", "gpt-4.1-mini", "gpt-4.1-nano">>

maxCacheSize == 100

\* JSON.stringify of the simplified interactions (action, selector, url;
\* absent properties are left out), as the pieces of the text.
SimplifiedJSON(interaction) ==
  <<"{", "\"action\":", "\"", interaction.action, "\"">>
  \o (IF "selector" \in DOMAIN interaction
      THEN <<",", "\"selector\":", "\"">> \o interaction.selector \o <<"\"">> ELSE <<>>)
  \o (IF "url" \in DOMAIN interaction
      THEN <<",", "\"url\":", "\"">> \o interaction.url \o <<"\"">> ELSE <<>>)
  \o <<"}">>

RECURSIVE SimplifiedList(_)
SimplifiedList(its) ==
  IF its = <<>> THEN <<>>
  ELSE SimplifiedJSON(Head(its))
       \o (IF Tail(its) = <<>> THEN <<>> ELSE <<",">> \o SimplifiedList(Tail(its)))

\* The first n characters of a text: whole pieces while they fit, then the
\* piece the cut falls in with the number of characters kept.
RECURSIVE TakeChars(_, _)
TakeChars(text, n) ==
  IF text = <<>> \/ n = 0 THEN <<>>
  ELSE IF Len(Head(text)) <= n
       THEN <<[piece |-> Head(text), chars |-> Len(Head(text))]>>
            \o TakeChars(Tail(text), n - Len(Head(text)))
       ELSE <<[piece |-> Head(text), chars |-> n]>>

\* 32 base64 characters encode the first 24 bytes of the JSON text.
KeyBytes == 24

generateCacheKey(its) == TakeChars(<<"[">> \o SimplifiedList(its) \o <<"]">>, KeyBytes)

CacheHas(cache, key) == \E k \in 1..Len(cache) : cache[k].key = key
CacheGet(cache, key) == cache[CHOOSE k \in 1..Len(cache) : cache[k].key = key].response

\* Map.prototype.set: a present key keeps its place, a new one goes last.
CacheSet(cache, key, response) ==
  IF CacheHas(cache, key)
  THEN [k \in 1..Len(cache) |->
          IF cache[k].key = key THEN [key |-> key, response |-> response] ELSE cache[k]]
  ELSE Append(cache, [key |-> key, response |-> response])

cacheResponseMutOffByOne(cache, key, response) ==
  CacheSet(IF Len(cache) > maxCacheSize THEN Tail(cache) ELSE cache, key, response)

\* cacheResponse: a full cache loses its first key (the Map iterates in
\* insertion order), then the response is set.
cacheResponse(cache, key, response) ==
  CacheSet(IF Len(cache) >= maxCacheSize THEN Tail(cache) ELSE cache, key, response)

\* What the AI may answer for `complexity` in an analysis.
AIComplexities == {"low", "high"}

AIAnalysis(complexity) ==
  [workflow |-> <<"ai">>, complexity |-> complexity, security |-> <<"ai">>]

getDefaultAnalysis(its) ==
  [workflow |-> <<"Automation workflow with ", ToString(Len(its)), " interactions">>,
   complexity |-> IF Len(its) > 10 THEN "high" ELSE IF Len(its) > 5 THEN "medium" ELSE "low",
   security |-> <<"Review for sensitive data handling">>]

\* The text a model returns for the enhancement prompt of a trace.
AIResponse(model, its) == [model |-> model, interactions |-> its]

getDefaultAPIDoc(its) ==
  <<"This script automates ", ToString(Len(its)), " browser interactions.">>

AllModelsFailed == <<"All AI models failed. Returning basic script.">>

(***************************************************************************)
(* ScriptGenerator.generateAutomationPackage, with the calls it awaits     *)
(***************************************************************************)
PkgTraces == {<<NavPlain, ClickGo>>, <<NavPlain, TypePassword>>, <<ClickGo, ScrollDown>>}

InitPkg ==
  /\ RecIdle
  /\ SelIdle
  /\ SvcIdle
  /\ PkgIdle
  /\ trace = <<>>
  /\ out = <<>>
  /\ params = None
  /\ estimate = None
  /\ security = None

\* Lines 33-35: the three other formats, generated once the enhanced script
\* is there.
AlternativeFormats(its) ==
  [puppeteer |-> generatePuppeteerScript(its),
   selenium |-> generateSeleniumScript(its),
   cypress |-> generateCypressScript(its)]

\* Lines 17-23: the basic script is generated, then the analysis is awaited.
BeginWith(its) ==
  /\ pc \in {"idle", "done"}
  /\ trace' = its
  /\ basicScript' = Some(generateBasicPlaywrightScript(its))
  /\ pc' = "analyze"
  /\ attempt' = 0
  /\ failures' = <<>>
  /\ analysis' = None
  /\ enhancedScript' = None
  /\ altScripts' = None
  /\ result' = None
  /\ UNCHANGED <<currentModelIndex, requestCache, out, params, estimate, security,
                 recVars, selVars, svcVars>>

\* A recording arrives and is handed to generateAutomationPackage.
BeginPackage == \E its \in PkgTraces : BeginWith(its)

\* generateAutomationPackage is called on the trace at hand.
PackageTrace == trace # <<>> /\ BeginWith(trace)

\* analyzeInteractions returns (the AI's analysis, or the default one when the
\* call failed); generateEnhancedScript then runs up to its first await: a
\* cached response is returned at once.
AnalysisReturns ==
  /\ pc = "analyze"
  /\ \/ \E c \in AIComplexities : analysis' = Some(AIAnalysis(c))
     \/ analysis' = Some(getDefaultAnalysis(trace))
  /\ IF CacheHas(requestCache, generateCacheKey(trace))
     THEN /\ enhancedScript' = Some(CacheGet(requestCache, generateCacheKey(trace)))
          /\ altScripts' = Some(AlternativeFormats(trace))
          /\ pc' = "document"
     ELSE /\ pc' = "enhance"
          /\ UNCHANGED <<enhancedScript, altScripts>>
  /\ attempt' = 0
  /\ UNCHANGED <<currentModelIndex, failures, requestCache, basicScript, result,
                 trace, out, params, estimate, security,
                 recVars, selVars, svcVars>>

\* One pass of the loop of generateEnhancedScript whose callAI succeeds.
EnhanceSucceeds ==
  /\ pc = "enhance"
  /\ LET response == AIResponse(models[currentModelIndex + 1], trace) IN
     /\ requestCache' = cacheResponse(requestCache, generateCacheKey(trace), response)
     /\ enhancedScript' = Some(response)
  /\ altScripts' = Some(AlternativeFormats(trace))
  /\ pc' = "document"
  /\ UNCHANGED <<attempt, currentModelIndex, failures, basicScript, analysis,
                 result, trace, out, params, estimate, security,
                 recVars, selVars, svcVars>>

\* One pass whose callAI fails: the next model is selected; after the last
\* attempt the error is thrown, and generateAutomationPackage rethrows it.
EnhanceFails ==
  /\ pc = "enhance"
  /\ failures' = Append(failures, models[currentModelIndex + 1])
  /\ currentModelIndex' = (currentModelIndex + 1) % Len(models)
  /\ IF attempt = Len(models) - 1
     THEN /\ result' = Some([kind |-> "error", message |-> AllModelsFailed])
          /\ pc' = "done"
          /\ UNCHANGED attempt
     ELSE /\ attempt' = attempt + 1
          /\ UNCHANGED <<result, pc>>
  /\ UNCHANGED <<requestCache, basicScript, analysis, enhancedScript, altScripts,
                 trace, out, params, estimate, security,
                 recVars, selVars, svcVars>>

Package(documentation) ==
  [kind |-> "package",
   analysis |-> analysis[1],
   scripts |-> [playwright |-> [basic |-> basicScript[1], enhanced |-> enhancedScript[1]],
                puppeteer |-> altScripts[1].puppeteer,
                selenium |-> altScripts[1].selenium,
                cypress |-> altScripts[1].cypress],
   documentation |-> documentation,
   configuration |-> generateConfigFile(trace, analysis[1]),
   metadata |-> [generatedAt |-> toISOString(DateNow),
                 interactionCount |-> Len(trace),
                 complexity |-> analysis[1].complexity,
                 estimatedRuntime |-> estimateRuntime(trace)]]

\* generateAPIDocumentation returns (the AI's text, or the default one when
\* the call failed) and the package is returned.
DocumentationReturns ==
  /\ pc = "document"
  /\ \/ result' = Some(Package(<<"ai">>))
     \/ result' = Some(Package(getDefaultAPIDoc(trace)))
  /\ pc' = "done"
  /\ UNCHANGED <<attempt, currentModelIndex, failures, requestCache, basicScript,
                 analysis, enhancedScript, altScripts, trace, out, params, estimate, security,
                 recVars, selVars, svcVars>>

NextPkg ==
  \/ BeginPackage
  \/ AnalysisReturns
  \/ EnhanceSucceeds
  \/ EnhanceFails
  \/ DocumentationReturns
  \/ Tick

SpecPkg == InitPkg /\ [][NextPkg]_vars

(***************************************************************************)
(* Claims about generateAutomationPackage (SpecPkg)                        *)
(***************************************************************************)
\* C5 (as claimed): when every enhancement attempt of a call has failed, the
\* call still returns a package that holds the basic Playwright script.
C5_BasicScriptSurvives ==
  (pc = "done" /\ Len(failures) = Len(models)) =>
    /\ result[1].kind = "package"
    /\ result[1].scripts.playwright.basic = basicScript[1]

\* C25 (as claimed): the enhanced script a call got, from the cache or from
\* a model, was generated for a trace with the same sequence of (action,
\* selector, url) as the trace of the call.
C25_CacheHitSameTrace ==
  enhancedScript # None =>
    SimplifiedList(enhancedScript[1].interactions) = SimplifiedList(trace)

(***************************************************************************)
(* One trace shared by all its consumers: the generators, the parameter    *)
(* extraction, the runtime estimate, the security classification and       *)
(* generateAutomationPackage are called on it in any order, any number of  *)
(* times, the steps of a package call interleaved with the other calls.    *)
(***************************************************************************)
SharedTraces ==
  {<<NavPlain, ClickGo>>, <<NavQuery, TypeUser>>, <<TypePassword, SubmitForm>>,
   <<ScrollDown, Hover>>}

InitShared ==
  /\ RecIdle
  /\ SelIdle
  /\ SvcIdle
  /\ PkgIdle
  /\ trace \in SharedTraces
  /\ out = <<>>
  /\ params = None
  /\ estimate = None
  /\ security = None

NextShared ==
  \/ SynthesizePlaywright
  \/ SynthesizePuppeteer
  \/ SynthesizeSelenium
  \/ SynthesizeCypress
  \/ ExtractParameters
  \/ EstimateRuntime
  \/ AnalyzeSecurity
  \/ PackageTrace
  \/ AnalysisReturns
  \/ EnhanceSucceeds
  \/ EnhanceFails
  \/ DocumentationReturns

SpecShared == InitShared /\ [][NextShared]_vars

\* C19: no call of a generator, of extractAPIParameters, of analyzeSecurity
\* or of generateAutomationPackage changes the trace it is given: the same
\* interactions, in the same order, with the same fields.
C19_TraceReadOnly == [][trace' = trace]_vars

\* C19 witness: all consumers have run on the trace, a package was returned
\* for it, and a second package call is under way.
C19_Witness ==
  /\ Len(trace) = 2
  /\ out # <<>>
  /\ params # None
  /\ estimate # None
  /\ security # None
  /\ requestCache # <<>>
  /\ pc = "document"

(***************************************************************************)
(* generateSelector on the elements of small pages: every combination of   *)
(* the attributes the rules read, alone or as first or second child of a   *)
(* parent with or without an id.                                           *)
(***************************************************************************)
\* A text of fifty characters.
LongText == "01234567890123456789012345678901234567890123456789"

Ids == {"", "main"}
TestIds == {"", "t1"}
Names == {"", "user"}
ClassLists ==
  {<<>>,
   << <<"_", "x", "y">>, <<"a", "b">> >>,
   << <<"a", "b">>, <<"b", "t", "n">>, <<"r", "e", "d">> >>}
AriaLabels == {"", "Close"}
Placeholders == {"", "Search"}
TagNames == {"BUTTON", "A", "DIV", "INPUT"}
TextContents == {"", "Go", " ", LongText}
ParentKinds == {"none", "plain", "withId", "nested", "nestedTopId", "nestedBothIds"}
NestedKinds == {"nested", "nestedTopId", "nestedBothIds"}

ElementShapes ==
  [tagName : TagNames, id : Ids, testid : TestIds, name : Names,
   className : ClassLists, ariaLabel : AriaLabels, placeholder : Placeholders,
   textContent : TextContents]

Plain(tag, parent, children) ==
  [tagName |-> tag, id |-> "", testid |-> "", name |-> "", className |-> <<>>,
   ariaLabel |-> "", placeholder |-> "", textContent |-> "", type |-> "",
   parentElement |-> parent, children |-> children]

Placed(shape, parent) ==
  [type |-> "", parentElement |-> parent, children |-> <<>>] @@ shape

\* The page that holds an element of the given shape: alone, at position 1
\* or 2 under a parent next to a plain sibling, or so placed under a parent
\* that is itself the only child of the root; the parent and the root carry
\* an id or none.
PageOf(shape, parentKind, position) ==
  IF parentKind = "none" THEN <<Placed(shape, NoElement)>>
  ELSE IF parentKind \in NestedKinds
  THEN LET root == [Plain("HTML", NoElement, <<2>>) EXCEPT
                      !.id = IF parentKind = "nested" THEN "" ELSE "top"]
           parent == [Plain("FORM", 1, <<3, 4>>) EXCEPT
                        !.id = IF parentKind = "nestedBothIds" THEN "root" ELSE ""]
       IN IF position = 1
          THEN <<root, parent, Placed(shape, 2), Plain("DIV", 2, <<>>)>>
          ELSE <<root, parent, Plain("DIV", 2, <<>>), Placed(shape, 2)>>
  ELSE LET parent == [Plain("DIV", NoElement, <<2, 3>>) EXCEPT
                        !.id = IF parentKind = "withId" THEN "root" ELSE ""]
       IN IF position = 1
          THEN <<parent, Placed(shape, 1), Plain("DIV", 1, <<>>)>>
          ELSE <<parent, Plain("DIV", 1, <<>>), Placed(shape, 1)>>

\* The place of the element in its page.
NodeOf(parentKind, position) ==
  IF parentKind = "none" THEN 1
  ELSE IF parentKind \in NestedKinds THEN position + 2
  ELSE position + 1

InitSel ==
  /\ RecIdle
  /\ GenIdle
  /\ PkgIdle
  /\ SvcIdle
  /\ \E shape \in ElementShapes : \E kind \in ParentKinds : \E position \in {1, 2} :
       /\ page = PageOf(shape, kind, position)
       /\ node = NodeOf(kind, position)
  /\ resolved = None

\* generateSelector called on the element.
Resolve ==
  /\ resolved' = Some(generateSelectorIn(page, node))
  /\ UNCHANGED <<page, node, recVars, genVars, pkgVars, svcVars>>

NextSel == Resolve

SpecSel == InitSel /\ [][NextSel]_vars

\* The rules in their order: the condition each puts on the element and the
\* selector it gives.
AttributeSelector(attr, value) == <<"[", attr, "\"", value, "\"", "]">>

Rules(el) ==
  <<[applies |-> el.id # "", selector |-> <<"#", el.id>>],
    [applies |-> el.testid # "",
     selector |-> <<"[", "data-test", "id=", "\"", el.testid, "\"", "]">>],
    [applies |-> el.name # "", selector |-> AttributeSelector("name=", el.name)],
    [applies |-> \E k \in 1..Len(el.className) : MeaningfulClass(el.className[k]),
     selector |->
       IF \E k \in 1..Len(el.className) : MeaningfulClass(el.className[k])
       THEN <<".">> \o el.className[CHOOSE k \in 1..Len(el.className) :
                          /\ MeaningfulClass(el.className[k])
                          /\ \A j \in 1..(k - 1) : ~MeaningfulClass(el.className[j])]
       ELSE <<>>],
    [applies |-> el.ariaLabel # "",
     selector |-> AttributeSelector("aria-label=", el.ariaLabel)],
    [applies |-> el.placeholder # "",
     selector |-> AttributeSelector("placeholder=", el.placeholder)],
    [applies |-> /\ el.tagName \in {"BUTTON", "A"}
                 /\ el.textContent # ""
                 /\ Len(trim(el.textContent)) < 50,
     selector |-> <<toLowerCase(el.tagName), ":contains(", "\"",
                    trim(el.textContent), "\"", ")">>]>>

\* What rule 8 gives: the parent's selector and the position among the
\* parent's children, or the bare tag name of an element without parent.
Fallback(tree, e) ==
  IF tree[e].parentElement = NoElement THEN <<toLowerCase(tree[e].tagName)>>
  ELSE generateSelectorIn(tree, tree[e].parentElement)
       \o <<" > ", toLowerCase(tree[e].tagName), ":nth-child(",
            ToString(CHOOSE k \in 1..Len(tree[tree[e].parentElement].children) :
                       tree[tree[e].parentElement].children[k] = e), ")">>

\* C18: generateSelector returns the selector of the first rule, in the
\* order id, data-testid, name, first meaningful class, aria-label,
\* placeholder, button/link text, whose condition the element satisfies, and
\* the nth-child fallback when none does; an element with a non-empty id
\* yields '#' followed by the id.
C18_FirstRuleWins ==
  resolved # None =>
    LET el == page[node]
        first == {k \in 1..Len(Rules(el)) :
                    /\ Rules(el)[k].applies
                    /\ \A j \in 1..(k - 1) : ~Rules(el)[j].applies}
    IN /\ \A k \in first : resolved[1] = Rules(el)[k].selector
       /\ first = {} => resolved[1] = Fallback(page, node)
       /\ el.id # "" => resolved[1] = <<"#", el.id>>

\* Whether some rule 1 to 7 applies to the element, and the selector the
\* first such rule gives.
Matches(el) == \E k \in 1..Len(Rules(el)) : Rules(el)[k].applies
FirstRule(el) ==
  Rules(el)[CHOOSE k \in 1..Len(Rules(el)) :
              /\ Rules(el)[k].applies
              /\ \A j \in 1..(k - 1) : ~Rules(el)[j].applies].selector

\* The walk from the element towards the root: Up[i] is the i-th ancestor,
\* the walk staying at the first one that matches a rule or has no parent.
Stops(tree, e) == Matches(tree[e]) \/ tree[e].parentElement = NoElement
Up(tree, e) ==
  LET A[i \in 0..Len(tree)] ==
        IF i = 0 THEN e
        ELSE IF Stops(tree, A[i - 1]) THEN A[i - 1] ELSE tree[A[i - 1]].parentElement
  IN A
Steps(tree, e) ==
  CHOOSE i \in 0..Len(tree) :
    /\ Stops(tree, Up(tree, e)[i])
    /\ \A j \in 0..(i - 1) : ~Stops(tree, Up(tree, e)[j])

\* ' > tag:nth-child(k)' with k the 1-based position of the element among
\* the children of its parent.
Segment(tree, e) ==
  <<" > ", toLowerCase(tree[e].tagName), ":nth-child(",
    ToString(CHOOSE k \in 1..Len(tree[tree[e].parentElement].children) :
               tree[tree[e].parentElement].children[k] = e), ")">>

\* The selector of the walk: that of the ancestor it stops at (its first
\* rule, or its bare tag name), then one segment per element below it.
PathSelector(tree, e) ==
  LET n == Steps(tree, e)
      top == Up(tree, e)[n]
      S[i \in 0..n] ==
        IF i = 0
        THEN IF Matches(tree[top]) THEN FirstRule(tree[top])
             ELSE <<toLowerCase(tree[top].tagName)>>
        ELSE S[i - 1] \o Segment(tree, Up(tree, e)[n - i])
  IN S[n]

\* C23: for an element that matches none of rules 1 to 7, generateSelector
\* returns: the walk to the first ancestor that matches a rule or has no
\* parent is finite, the selector is that ancestor's followed by one
\* '> tag:nth-child(k)' per element on the way down, and an element without
\* parent yields its bare lowercase tag name.
C23_FallbackTerminates ==
  (resolved # None /\ ~Matches(page[node])) =>
    /\ \E i \in 0..Len(page) : Stops(page, Up(page, node)[i])
    /\ resolved[1] = PathSelector(page, node)
    /\ Cardinality({k \in 1..Len(resolved[1]) : resolved[1][k] = ":nth-child("})
         = Steps(page, node)
    /\ page[node].parentElement = NoElement =>
         resolved[1] = <<toLowerCase(page[node].tagName)>>

\* C23 witness: an element that matches no rule, second child of a parent
\* that matches none either, under a root without id: the selector walks two
\* levels up and ends at the root's tag name.
C23_Witness ==
  /\ resolved # None
  /\ ~Matches(page[node])
  /\ Steps(page, node) = 2
  /\ resolved[1] = <<"html", " > ", "form", ":nth-child(", "1", ")",
                      " > ", "div", ":nth-child(", "2", ")">>

\* C18 witness: an element without id that satisfies several later rules
\* (name, a meaningful class, a short button text) got the selector of the
\* data-testid rule.
C18_Witness ==
  /\ resolved # None
  /\ page[node].id = ""
  /\ page[node].testid # ""
  /\ page[node].name # ""
  /\ Len(MeaningfulClasses(page[node])) > 0
  /\ page[node].tagName = "BUTTON"
  /\ page[node].textContent = "Go"
  /\ resolved[1] = <<"[", "data-test", "id=", "\"", page[node].testid, "\"", "]">>

(***************************************************************************)
(* AIService.generateEnhancedScript called for several recordings at once: *)
(* POST /api/recordings does not await processRecording, so the calls of   *)
(* several recordings run interleaved at their awaits, on one AIService.   *)
(***************************************************************************)
ConcurrentCalls == 2   \* recordings processed at the same time

ConcTraces == {<<NavPlain, ClickGo>>, <<ClickGo, ScrollDown>>}

NoCall ==
  [pc |-> "idle", its |-> <<>>, attempt |-> 0, model |-> None, tried |-> <<>>,
   response |-> None]

InitConc ==
  /\ RecIdle
  /\ GenIdle
  /\ PkgIdle
  /\ SelIdle
  /\ calls = [c \in 1..ConcurrentCalls |-> NoCall]
  /\ inserted = 0
  /\ table = <<>>
  /\ jobs = <<>>
  /\ poll = NoPoll
  /\ settingsFile = DEFAULT_SETTINGS
  /\ settings = DEFAULT_SETTINGS

\* Lines 23-38: the call up to its first await.  A cached response is
\* returned at once; otherwise the first pass of the loop reads
\* this.models[this.currentModelIndex] and awaits callAI.
EnhanceCall(c) ==
  /\ calls[c].pc = "idle"
  /\ \E its \in ConcTraces :
       calls' = [calls EXCEPT ![c] =
         IF CacheHas(requestCache, generateCacheKey(its))
         THEN [@ EXCEPT !.pc = "returned", !.its = its,
                        !.response = Some(CacheGet(requestCache, generateCacheKey(its)))]
         ELSE [@ EXCEPT !.pc = "awaiting", !.its = its,
                        !.model = Some(models[currentModelIndex + 1]),
                        !.tried = <<models[currentModelIndex + 1]>>]]
  /\ UNCHANGED <<inserted, table, jobs, poll, settingsFile, settings, recVars, genVars, pkgVars, selVars>>

\* Lines 38-43: callAI resolves; the response is cached and returned.
CallAIResolves(c) ==
  /\ calls[c].pc = "awaiting"
  /\ LET response == AIResponse(calls[c].model[1], calls[c].its) IN
     /\ requestCache' =
          cacheResponse(requestCache, generateCacheKey(calls[c].its), response)
     /\ calls' = [calls EXCEPT ![c] =
                    [@ EXCEPT !.pc = "returned", !.response = Some(response)]]
  /\ UNCHANGED <<pc, attempt, currentModelIndex, failures, basicScript, analysis,
                 enhancedScript, altScripts, result, inserted, table, jobs, poll, settingsFile, settings,
                 recVars, genVars, selVars>>

\* Lines 44-54: callAI rejects; this.currentModelIndex moves on, and either
\* the call throws (last attempt) or the next pass reads the model at the
\* index as it is now and awaits callAI again.
CallAIRejects(c) ==
  /\ calls[c].pc = "awaiting"
  /\ currentModelIndex' = (currentModelIndex + 1) % Len(models)
  /\ calls' = [calls EXCEPT ![c] =
       IF @.attempt = Len(models) - 1
       THEN [@ EXCEPT !.pc = "threw", !.model = None]
       ELSE [@ EXCEPT !.attempt = @ + 1,
                      !.model = Some(models[currentModelIndex' + 1]),
                      !.tried = Append(@, models[currentModelIndex' + 1])]]
  /\ UNCHANGED <<pc, attempt, failures, requestCache, basicScript, analysis,
                 enhancedScript, altScripts, result, inserted, table, jobs, poll, settingsFile, settings,
                 recVars, genVars, selVars>>

NextConc ==
  \E c \in 1..ConcurrentCalls :
    \/ EnhanceCall(c)
    \/ CallAIResolves(c)
    \/ CallAIRejects(c)

SpecConc == InitConc /\ [][NextConc]_vars

\* C26 (as claimed): a call that threw because every attempt failed has
\* attempted each of the three configured models exactly once, whatever the
\* other calls running on the same AIService did in between.
C26_EachModelOnce ==
  \A c \in DOMAIN calls :
    calls[c].pc = "threw" =>
      \A m \in Range(models) :
        Cardinality({k \in 1..Len(calls[c].tried) : calls[c].tried[k] = m}) = 1

(***************************************************************************)
(* The request cache over many generateEnhancedScript calls, made one      *)
(* after the other on traces with different cache keys.                    *)
(***************************************************************************)
MaxInserts == 102   \* responses cached in one run

\* The k-th of the traces: each has a cache key of its own.
KeyTrace(k) == <<[action |-> ToString(k)]>>

\* Traces requested again after their response was cached.
Repeated == {1, 2}

InitCache ==
  /\ RecIdle
  /\ GenIdle
  /\ PkgIdle
  /\ SelIdle
  /\ calls = <<>>
  /\ inserted = 0
  /\ table = <<>>
  /\ jobs = <<>>
  /\ poll = NoPoll
  /\ settingsFile = DEFAULT_SETTINGS
  /\ settings = DEFAULT_SETTINGS

\* One generateEnhancedScript call from start to end: a cached response is
\* returned; otherwise the first callAI succeeds and its response is cached,
\* or every callAI fails and the call throws (the index then went once
\* round the models).
GenerateEnhanced(its) ==
  /\ trace' = its
  /\ IF CacheHas(requestCache, generateCacheKey(its))
     THEN /\ enhancedScript' = Some(CacheGet(requestCache, generateCacheKey(its)))
          /\ UNCHANGED <<requestCache, inserted>>
     ELSE \/ /\ inserted < MaxInserts
             /\ inserted' = inserted + 1
             /\ requestCache' =
                  cacheResponse(requestCache, generateCacheKey(its),
                                AIResponse(models[currentModelIndex + 1], its))
             /\ enhancedScript' = Some(AIResponse(models[currentModelIndex + 1], its))
          \/ /\ enhancedScript' = None
             /\ UNCHANGED <<requestCache, inserted>>
  /\ UNCHANGED <<pc, attempt, currentModelIndex, failures, basicScript, analysis,
                 altScripts, result, out, params, estimate, security, calls,
                 table, jobs, poll, settingsFile, settings, recVars, selVars>>

\* A recording with a new cache key arrives.
EnhanceNew == GenerateEnhanced(KeyTrace(inserted + 1))

\* A recording seen before arrives again.
EnhanceRepeated ==
  \E k \in Repeated : k <= inserted /\ GenerateEnhanced(KeyTrace(k))

NextCache == EnhanceNew \/ EnhanceRepeated

SpecCache == InitCache /\ [][NextCache]_vars

\* The keys of the cache, in the order of the Map.
CacheKeys(cache) == [k \in 1..Len(cache) |-> cache[k].key]

\* C27: the request cache never holds more than maxCacheSize entries, and a
\* call that caches a response under a new key while the cache is full
\* removes exactly one entry, the one inserted earliest: the other entries
\* stay, in their order, followed by the new one.
C27_CacheBoundedFifo ==
  /\ [](Len(requestCache) <= maxCacheSize)
  /\ [][(Len(requestCache) = maxCacheSize /\ requestCache' # requestCache) =>
          /\ ~CacheHas(requestCache, generateCacheKey(trace'))
          /\ requestCache' =
               Tail(requestCache)
               \o <<[key |-> generateCacheKey(trace'), response |-> enhancedScript'[1]]>>
          /\ requestCache[1].key \notin Range(CacheKeys(requestCache'))]_vars

\* C27 witness: the cache is full after more insertions than it can hold,
\* and the key cached first is no longer in it.
C27_Witness ==
  /\ inserted > maxCacheSize
  /\ Len(requestCache) = maxCacheSize
  /\ ~CacheHas(requestCache, generateCacheKey(KeyTrace(1)))
  /\ CacheHas(requestCache, generateCacheKey(KeyTrace(maxCacheSize + 1)))

(***************************************************************************)
(* POST /api/recordings and processRecording: the row of a recording and   *)
(* the status its processing leaves in it.  Every database call and the    *)
(* package generation may resolve or reject; the calls of several          *)
(* recordings interleave at their awaits.                                  *)
(***************************************************************************)
MaxRecordings == 2   \* recordings posted in one run

ProcTraces == {<<NavPlain, ClickGo>>, <<NavPlain, TypePassword>>}

\* The row INSERT ... VALUES ($1, $2, $3, $4, 'processing') creates.
createRecording(its) ==
  [status |-> "processing", interactions |-> its, automation_package |-> None,
   error_message |-> None]

\* What generateAutomationPackage resolves with, as far as the row shows.
AutomationPackage(its) == [kind |-> "package", interactionCount |-> Len(its)]

InitProc ==
  /\ RecIdle
  /\ GenIdle
  /\ PkgIdle
  /\ SelIdle
  /\ calls = <<>>
  /\ inserted = 0
  /\ table = <<>>
  /\ jobs = <<>>
  /\ poll = NoPoll
  /\ settingsFile = DEFAULT_SETTINGS
  /\ settings = DEFAULT_SETTINGS

procFrame == <<calls, inserted, poll, settingsFile, settings, recVars, genVars, pkgVars, selVars>>

\* Lines 51-75 and 119-125: the row is created (a rejected createRecording
\* answers 500 and leaves no row) and processRecording is called, not
\* awaited; it runs up to its await of db.getRecording.
PostRecording ==
  /\ Len(table) < MaxRecordings
  /\ \E its \in ProcTraces :
       /\ table' = Append(table, createRecording(its))
       /\ jobs' = Append(jobs, [pc |-> "getRecording", package |-> None])
  /\ UNCHANGED procFrame

\* Lines 125-138: db.getRecording resolves with the row and the package
\* generation is awaited, or it rejects and the catch block awaits the
\* update to 'error'.
GetRecordingReturns(id) ==
  /\ jobs[id].pc = "getRecording"
  /\ \/ jobs' = [jobs EXCEPT ![id].pc = "generate"]
     \/ jobs' = [jobs EXCEPT ![id].pc = "markError"]
  /\ UNCHANGED <<table, procFrame>>

\* Lines 134-145: generateAutomationPackage resolves and the update to
\* 'completed' is awaited, or it rejects.
GenerationReturns(id) ==
  /\ jobs[id].pc = "generate"
  /\ \/ jobs' = [jobs EXCEPT ![id].pc = "markCompleted",
                              ![id].package = Some(AutomationPackage(table[id].interactions))]
     \/ jobs' = [jobs EXCEPT ![id].pc = "markError"]
  /\ UNCHANGED <<table, procFrame>>

\* Lines 140-166: the update to 'completed' resolves (the package holds no
\* apiPackage, so nothing is registered) and processRecording ends, or it
\* rejects and the catch block awaits the update to 'error'.
CompletedUpdateReturns(id) ==
  /\ jobs[id].pc = "markCompleted"
  /\ \/ /\ table' = [table EXCEPT ![id].status = "completed",
                                   ![id].automation_package = jobs[id].package]
        /\ jobs' = [jobs EXCEPT ![id].pc = "ended"]
     \/ /\ jobs' = [jobs EXCEPT ![id].pc = "markError"]
        /\ UNCHANGED table
  /\ UNCHANGED procFrame

\* Lines 168-178: the update to 'error' resolves, or it rejects, which is
\* logged; processRecording ends either way.
ErrorUpdateReturns(id) ==
  /\ jobs[id].pc = "markError"
  /\ \/ table' = [table EXCEPT ![id].status = "error",
                                ![id].error_message = Some("error.message")]
     \/ UNCHANGED table
  /\ jobs' = [jobs EXCEPT ![id].pc = "ended"]
  /\ UNCHANGED procFrame

ProcessStep(id) ==
  \/ GetRecordingReturns(id)
  \/ GenerationReturns(id)
  \/ CompletedUpdateReturns(id)
  \/ ErrorUpdateReturns(id)

NextProc ==
  \/ PostRecording
  \/ \E id \in DOMAIN jobs : GetRecordingReturns(id)
  \/ \E id \in DOMAIN jobs : GenerationReturns(id)
  \/ \E id \in DOMAIN jobs : CompletedUpdateReturns(id)
  \/ \E id \in DOMAIN jobs : ErrorUpdateReturns(id)

SpecProc == InitProc /\ [][NextProc]_vars

\* Every awaited call eventually returns.
SpecProcFair ==
  SpecProc /\ \A id \in 1..MaxRecordings : WF_vars(id \in DOMAIN jobs /\ ProcessStep(id))

\* C28 (as claimed): every recording created eventually leaves the status
\* 'processing', given that each AI and database call eventually returns.
C28_LeavesProcessing ==
  \A id \in 1..MaxRecordings :
    (id \in DOMAIN table /\ table[id].status = "processing")
      ~> (id \in DOMAIN table /\ table[id].status # "processing")

(***************************************************************************)
(* ApiService.pollRecordingStatus, against any sequence of answers of the  *)
(* backend                                                                 *)
(***************************************************************************)
DefaultMaxAttempts == 30

\* The values of the maxAttempts parameter: the default, and small ones.
MaxAttemptsValues == {0, 2, DefaultMaxAttempts}

\* What a getRecording request ends with: a recording with one of the three
\* statuses, or a rejection (network error, or a response that is not ok).
Statuses == {"processing", "completed", "error"}
Rejected == "rejected"

InitPoll ==
  /\ RecIdle
  /\ GenIdle
  /\ PkgIdle
  /\ SelIdle
  /\ calls = <<>>
  /\ inserted = 0
  /\ table = <<>>
  /\ jobs = <<>>
  /\ poll = NoPoll
  /\ settingsFile = DEFAULT_SETTINGS
  /\ settings = DEFAULT_SETTINGS

pollFrame == <<calls, inserted, table, jobs, settingsFile, settings, recVars, genVars, pkgVars, selVars>>

\* What poll() does once its request has settled with `answer`.
pollMutNoTimeout(p, answer) ==
  LET received == [p EXCEPT !.responses = Append(@, answer)] IN
  IF answer = Rejected
  THEN [received EXCEPT !.pc = "stopped", !.updates = Append(@, "error")]
  ELSE LET updated == [received EXCEPT !.updates = Append(@, answer)] IN
       IF answer \in {"completed", "error"} THEN [updated EXCEPT !.pc = "stopped"]
       ELSE IF p.attempts <= p.maxAttempts
       THEN [updated EXCEPT !.attempts = @ + 1, !.pc = "scheduled"]
       ELSE [updated EXCEPT !.pc = "stopped", !.updates = Append(@, "error")]

pollSettled(p, answer) ==
  LET received == [p EXCEPT !.responses = Append(@, answer)] IN
  IF answer = Rejected
  THEN [received EXCEPT !.pc = "stopped", !.updates = Append(@, "error")]
  ELSE LET updated == [received EXCEPT !.updates = Append(@, answer)] IN
       IF answer \in {"completed", "error"} THEN [updated EXCEPT !.pc = "stopped"]
       ELSE IF p.attempts < p.maxAttempts
       THEN [updated EXCEPT !.attempts = @ + 1, !.pc = "scheduled"]
       ELSE [updated EXCEPT !.pc = "stopped", !.updates = Append(@, "error")]

\* pollRecordingStatus is called: attempts is 0 and poll() issues the first
\* request.
PollRecordingStatus ==
  /\ poll.pc = "idle"
  /\ \E m \in MaxAttemptsValues :
       poll' = [poll EXCEPT !.pc = "awaiting", !.maxAttempts = m]
  /\ UNCHANGED pollFrame

\* The request settles and poll() runs to its end.
RequestSettles ==
  /\ poll.pc = "awaiting"
  /\ \E answer \in Statuses \cup {Rejected} : poll' = pollSettled(poll, answer)
  /\ UNCHANGED pollFrame

\* The timer set by setTimeout(poll, 2000) fires: poll() issues a request.
TimerFires ==
  /\ poll.pc = "scheduled"
  /\ poll' = [poll EXCEPT !.pc = "awaiting"]
  /\ UNCHANGED pollFrame

NextPoll == PollRecordingStatus \/ RequestSettles \/ TimerFires

SpecPoll == InitPoll /\ [][NextPoll]_vars

\* The getRecording requests issued so far: the settled ones and the one in
\* flight.
Requests == Len(poll.responses) + (IF poll.pc = "awaiting" THEN 1 ELSE 0)

\* C29: pollRecordingStatus issues at most maxAttempts + 1 requests; every
\* request but the last was answered with status 'processing', so none is
\* issued after a 'completed' or 'error' recording or after a failed
\* request; and when polling has stopped without such a recording, the last
\* onUpdate reported status 'error'.
C29_PollingBounded ==
  /\ Requests <= poll.maxAttempts + 1
  /\ \A k \in 1..(Requests - 1) : poll.responses[k] = "processing"
  /\ poll.pc \in {"scheduled", "awaiting"} =>
       \A k \in 1..Len(poll.responses) : poll.responses[k] = "processing"
  /\ (poll.pc = "stopped"
        /\ poll.responses[Len(poll.responses)] \notin {"completed", "error"}) =>
       poll.updates[Len(poll.updates)] = "error"

\* C29 witness: polling with the default maxAttempts stopped after 31
\* requests that were all answered 'processing'.
C29_Witness ==
  /\ poll.pc = "stopped"
  /\ poll.maxAttempts = DefaultMaxAttempts
  /\ Len(poll.responses) = DefaultMaxAttempts + 1
  /\ poll.responses[Len(poll.responses)] = "processing"
  /\ poll.updates[Len(poll.updates)] = "error"

(***************************************************************************)
(* The settings: GET and POST /api/settings, and the Settings component    *)
(* that loads, edits and saves them.                                       *)
(***************************************************************************)
Masked == "***masked***"

ApiKeys == {"", "sk-live", "sk-other"}
AiModels == {"gpt-4.1-mini", "gpt-4.1-nano"}
Timeouts == {5, 30, 60}

\* { ...a, ...b } for objects with the same fields.
Merge(a, b) == [k \in DOMAIN a \cup DOMAIN b |-> IF k \in DOMAIN b THEN b[k] ELSE a[k]]

\* GET /api/settings: the stored settings, a non-empty apiKey masked.
safeSettings(stored) ==
  IF stored.apiKey # "" THEN [stored EXCEPT !.apiKey = Masked] ELSE stored

\* The settings file holds the defaults, with or without a key.
InitSet ==
  /\ RecIdle
  /\ GenIdle
  /\ PkgIdle
  /\ SelIdle
  /\ calls = <<>>
  /\ inserted = 0
  /\ table = <<>>
  /\ jobs = <<>>
  /\ poll = NoPoll
  /\ \E key \in {"", "sk-live"} : settingsFile = [DEFAULT_SETTINGS EXCEPT !.apiKey = key]
  /\ settings = DEFAULT_SETTINGS

setFrame == <<calls, inserted, table, jobs, poll, recVars, genVars, pkgVars, selVars>>

\* Settings.loadSettings: setSettings(prev => ({ ...prev, ...data })).
LoadSettings ==
  /\ settings' = Merge(settings, safeSettings(settingsFile))
  /\ UNCHANGED <<settingsFile, setFrame>>

\* handleSettingChange: the user edits one field.
HandleSettingChange ==
  /\ \/ \E v \in ApiKeys : settings' = [settings EXCEPT !.apiKey = v]
     \/ \E v \in AiModels : settings' = [settings EXCEPT !.aiModel = v]
     \/ \E v \in Timeouts : settings' = [settings EXCEPT !.timeout = v]
  /\ UNCHANGED <<settingsFile, setFrame>>

\* Settings.saveSettings and POST /api/settings: the body is merged over the
\* stored settings, validated and written (a timeout out of range is
\* answered 400 and nothing is written).
SaveSettings ==
  /\ LET newSettings == Merge(settingsFile, settings) IN
     IF newSettings.timeout < 10 \/ newSettings.timeout > 300
     THEN UNCHANGED settingsFile
     ELSE settingsFile' = newSettings
  /\ UNCHANGED <<settings, setFrame>>

NextSet == LoadSettings \/ HandleSettingChange \/ SaveSettings

SpecSet == InitSet /\ [][NextSet]_vars

\* C30 (as claimed): saving the settings exactly as GET /api/settings
\* returns them leaves the stored apiKey unchanged.
C30_MaskedKeyNotStored ==
  [][(SaveSettings /\ settings = safeSettings(settingsFile)) =>
       settingsFile'.apiKey = settingsFile.apiKey]_vars

====
